---------------------------- MODULE Spec2Model ----------------------------
(***************************************************************************)
(* A model of the JMLR front-matter extraction code.                       *)
(*                                                                         *)
(*   Spec       src/proc_jmlr_lite.py : parse_jmlr_pdf, i.e. the sort of   *)
(*              the extracted pieces, coarse_filter_pieces, and            *)
(*              fine_filter_pieces with its nested parse_header and        *)
(*              year_process.                                              *)
(*   SpecTitle  src/proc_jmlr.py : analysis_result, header search and      *)
(*              title resolution.                                          *)
(*   SpecCompare  src/proc_jmlr.py : compare_alphanumeric on its own.      *)
(*   SpecResult   src/proc_jmlr.py : analysis_result as a whole, with      *)
(*              judge_format and analysis_normal_format, on pages with     *)
(*              author blocks.                                             *)
(*   SpecId     src/proc_jmlr.py : is_valid_id on its own.                 *)
(*   SpecBatch  the batch drivers: the __main__ loop of src/proc_jmlr.py   *)
(*              and the loop of src/statistic_scripts.py, under weak       *)
(*              fairness of their steps.                                   *)
(*                                                                         *)
(* A text is a sequence of characters, each a one-element string.  The     *)
(* fixed words the regular expressions look for ("Journal of Machine       *)
(* Learning Research", "Submitted", "Editor", ...) are single characters   *)
(* of that alphabet, written as the word.  Python's 0-based indices are    *)
(* kept in the index variables; pieces[i] of the code is pieces[i + 1].    *)
(***************************************************************************)
EXTENDS Integers, Sequences, FiniteSets, TLC

VARIABLES
    pc,               \* position in the pipeline
    pieces,           \* the list object parse_jmlr_pdf hands to coarse_filter_pieces
    i,                \* loop variable of coarse_filter_pieces
    left_index,       \* coarse_filter_pieces: the Editor / Abstract cut index
    right_index,      \* coarse_filter_pieces: the copyright index
    filtered_pieces,  \* the list coarse_filter_pieces returns
    exc,              \* the exception raised, or "none"
    header,           \* the header text: of fine_filter_pieces, or of analysis_result
    match,            \* parse_header: the groups of the regular expression, or NoMatch
    header_info,      \* parse_header: the dictionary returned
    fine_pieces,      \* the list fine_filter_pieces returns
    result,           \* analysis_result: the spans of the first page
    pdf_name,         \* analysis_result: the file name, then the canonical identifier
    line,             \* analysis_result: the cursor
    title,            \* analysis_result: metadata_dict["title"]
    ret,              \* analysis_result: the tuple returned, or NoRet
    str1,             \* compare_alphanumeric: the first argument
    str2,             \* compare_alphanumeric: the second argument
    alphanumeric1,    \* compare_alphanumeric: the letters and digits of str1
    alphanumeric2,    \* compare_alphanumeric: the letters and digits of str2
    equal,            \* compare_alphanumeric: the value returned
    editor_line,      \* analysis_normal_format: the line of "Editor:", or -1 for None
    authors_line_list,\* analysis_normal_format: the lines of the author names
    authors,          \* analysis_normal_format: metadata_dict["authors"]
    editor,           \* analysis_normal_format: metadata_dict["editor"]
    driver,           \* the batch driver: the module whose __main__ runs
    worklist,         \* the batch driver: sorted(os.listdir(...)), file by file
    pdf,              \* the batch driver: the index of the file the loop is at
    success_count,    \* the batch driver: successes counted, or collected
    fail_count,       \* the batch driver: failures counted, or collected
    processed,        \* for each file, how often it has been parsed
    id_text,          \* is_valid_id: the argument s
    id_valid          \* is_valid_id: the value returned

vars == <<pc, pieces, i, left_index, right_index, filtered_pieces, exc,
          header, match, header_info, fine_pieces,
          result, pdf_name, line, title, ret,
          str1, str2, alphanumeric1, alphanumeric2, equal,
          editor_line, authors_line_list, authors, editor,
          driver, worklist, pdf, success_count, fail_count, processed,
          id_text, id_valid>>

lite_vars == <<pieces, i, left_index, right_index, filtered_pieces, exc,
               header, match, header_info, fine_pieces>>

title_vars == <<result, pdf_name, line, title, ret>>

compare_vars == <<str1, str2, alphanumeric1, alphanumeric2, equal>>

normal_vars == <<editor_line, authors_line_list, authors, editor>>

batch_vars == <<driver, worklist, pdf, success_count, fail_count, processed>>

id_vars == <<id_text, id_valid>>

---------------------------------------------------------------------------
(* Bounds of the model. *)

\* longest list of pieces given to the coarse filter
MaxPieces == 3

\* longest list of spans given to analysis_result
MaxResult == 3

---------------------------------------------------------------------------
(* Characters and texts. *)

JMLR == "Journal of Machine Learning Research"

\* the same words in another letter case: re.IGNORECASE matches them, `in` does not
JMLRLower == "journal of machine learning research"

COPYRIGHT == "(c)"

ENDASH == "--"

Digits == <<"0", "1", "2", "3", "4", "5", "6", "7", "8", "9">>

IsDigit(c) == \E d \in 1..10 : Digits[d] = c

DigitValue(c) == (CHOOSE d \in 1..10 : Digits[d] = c) - 1

\* \s of the regular expressions, on normalized text
IsSpace(c) == c \in {" ", "\n"}

Contains(text, c) == \E k \in 1..Len(text) : text[k] = c

RECURSIVE Concat(_)
Concat(ss) == IF ss = <<>> THEN <<>> ELSE Head(ss) \o Concat(Tail(ss))

\* int(s) of a run of decimal digits
RECURSIVE DigitsToInt(_)
DigitsToInt(s) ==
    IF s = <<>> THEN 0
    ELSE 10 * DigitsToInt(SubSeq(s, 1, Len(s) - 1)) + DigitValue(s[Len(s)])

\* str(n) of a natural number
RECURSIVE NatToDigits(_)
NatToDigits(n) ==
    IF n < 10 THEN <<Digits[n + 1]>>
    ELSE NatToDigits(n \div 10) \o <<Digits[(n % 10) + 1]>>

\* str(n) of an integer
IntToStr(n) == IF n < 0 THEN <<"-">> \o NatToDigits(0 - n) ELSE NatToDigits(n)

\* f"{n:02d}" of a natural number
Pad2(n) == IF n < 10 THEN <<"0">> \o NatToDigits(n) ELSE NatToDigits(n)

\* s.strip() on normalized text
RECURSIVE Strip(_)
Strip(s) ==
    IF s = <<>> THEN s
    ELSE IF IsSpace(s[1]) THEN Strip(Tail(s))
    ELSE IF IsSpace(s[Len(s)]) THEN Strip(SubSeq(s, 1, Len(s) - 1))
    ELSE s

---------------------------------------------------------------------------
(* Pieces: proc_jmlr_lite.py. *)

Piece(text, x0, y0) == [text |-> text, rect |-> <<x0, y0, x0 + 1, y0 + 1>>]

\* the sort key of parse_jmlr_pdf: (rect[1], rect[0])
KeyLeq(p, q) ==
    \/ p.rect[2] < q.rect[2]
    \/ p.rect[2] = q.rect[2] /\ p.rect[1] <= q.rect[1]

\* list.sort is stable: an element goes behind the elements whose key is not larger
RECURSIVE InsertByKey(_, _)
InsertByKey(s, e) ==
    IF s = <<>> THEN <<e>>
    ELSE IF KeyLeq(s[Len(s)], e) THEN Append(s, e)
    ELSE Append(InsertByKey(SubSeq(s, 1, Len(s) - 1), e), s[Len(s)])

RECURSIVE SortPieces(_)
SortPieces(s) ==
    IF s = <<>> THEN <<>>
    ELSE InsertByKey(SortPieces(SubSeq(s, 1, Len(s) - 1)), s[Len(s)])

\* re.search(r"(?u)Editor", text, re.IGNORECASE)
HasEditor(text) == Contains(text, "Editor") \/ Contains(text, "Editor:")

\* re.search(r"(?u)Abstract", text, re.IGNORECASE)
HasAbstract(text) == Contains(text, "Abstract")

\* re.search of the copyright glyphs
HasCopyright(text) == Contains(text, COPYRIGHT)

\* one iteration of the loop of coarse_filter_pieces, for index k
ScanLeft(p, k, l) ==
    IF HasEditor(p[k + 1].text) /\ l = -1 THEN k
    ELSE IF HasAbstract(p[k + 1].text) /\ l = -1 THEN k - 1
    ELSE l

ScanRight(p, k, r) == IF HasCopyright(p[k + 1].text) THEN k ELSE r

\* what the list variables hold while there is no list
NoList == <<[text |-> <<"no list">>, rect |-> <<0, 0, 0, 0>>]>>

\* coarse_filter_pieces with the slice pieces[:left_index + 1]: the cut span is kept
coarse_filter_return_keeps_cut(p, l, r) ==
    IF l # -1 /\ r # -1 /\ l < r
    THEN [arg |-> p,
          ret |-> SubSeq(p, 1, l + 1) \o SubSeq(p, r + 1, Len(p)),
          exc |-> "none"]
    ELSE [arg |-> p, ret |-> NoList, exc |-> "JMLRPDFExtractionError"]

\* coarse_filter_pieces with the test left_index <= right_index
coarse_filter_return_le(p, l, r) ==
    IF l # -1 /\ r # -1 /\ l <= r
    THEN [arg |-> p,
          ret |-> SubSeq(p, 1, l) \o SubSeq(p, r + 1, Len(p)),
          exc |-> "none"]
    ELSE [arg |-> p, ret |-> NoList, exc |-> "JMLRPDFExtractionError"]

\* coarse_filter_pieces with del pieces[left_index:right_index] in place of the slices
coarse_filter_return_in_place(p, l, r) ==
    IF l # -1 /\ r # -1 /\ l < r
    THEN [arg |-> SubSeq(p, 1, l) \o SubSeq(p, r + 1, Len(p)),
          ret |-> SubSeq(p, 1, l) \o SubSeq(p, r + 1, Len(p)),
          exc |-> "none"]
    ELSE [arg |-> p, ret |-> NoList, exc |-> "JMLRPDFExtractionError"]

\* coarse_filter_pieces with the slice pieces[right_index + 1:]: the copyright
\* span is dropped
coarse_filter_return_drops_anchor(p, l, r) ==
    IF l # -1 /\ r # -1 /\ l < r
    THEN [arg |-> p,
          ret |-> SubSeq(p, 1, l) \o SubSeq(p, r + 2, Len(p)),
          exc |-> "none"]
    ELSE [arg |-> p, ret |-> NoList, exc |-> "JMLRPDFExtractionError"]

\* the end of coarse_filter_pieces: the list object given, the list returned, the
\* exception raised
coarse_filter_return(p, l, r) ==
    IF l # -1 /\ r # -1 /\ l < r
    THEN [arg |-> p,
          ret |-> SubSeq(p, 1, l) \o SubSeq(p, r + 1, Len(p)),
          exc |-> "none"]
    ELSE [arg |-> p, ret |-> NoList, exc |-> "JMLRPDFExtractionError"]

---------------------------------------------------------------------------
(* The citation header: fine_filter_pieces, parse_header, year_process. *)

None == <<"None">>

At(s, p) == IF p >= 1 /\ p <= Len(s) THEN s[p] ELSE "end of text"

\* the position behind the longest run of \s from p on
RECURSIVE SkipSpaces(_, _)
SkipSpaces(s, p) == IF IsSpace(At(s, p)) THEN SkipSpaces(s, p + 1) ELSE p

\* the position behind the longest run of \d from p on
RECURSIVE SkipDigits(_, _)
SkipDigits(s, p) == IF IsDigit(At(s, p)) THEN SkipDigits(s, p + 1) ELSE p

\* \d{1,2}/\d{1,2} at p, where no digit may follow: what follows it in the
\* pattern is never a digit
IsDate(s, p) ==
    LET m == SkipDigits(s, p)
        y == SkipDigits(s, m + 1)
    IN  /\ m - p \in 1..2
        /\ At(s, m) = "/"
        /\ y - (m + 1) \in 1..2

DateEnd(s, p) == SkipDigits(s, SkipDigits(s, p) + 1)

NoMatch ==
    [ok |-> FALSE, volume |-> None, year |-> None, start_page |-> None,
     end_page |-> None, submitted |-> None, revised |-> None, published |-> None]

\* re.match(pattern, header, re.IGNORECASE) of parse_header, read left to right:
\* every choice of the pattern is decided by the next character, so the first
\* path Python's matcher takes is the only one that can succeed
header_match(s) ==
    LET p0  == SkipSpaces(s, 1)
        p1  == SkipSpaces(s, p0 + 1)
        p2  == IF At(s, p1) = "volume" THEN SkipSpaces(s, p1 + 1) ELSE p1
        v   == SkipDigits(s, p2)
        p3  == IF v > p2 THEN SkipSpaces(s, v) ELSE p2
        yr  == SkipDigits(s, p3 + 1)
        p4  == SkipSpaces(s, yr + 1)
        sp  == SkipDigits(s, p4)
        ep  == SkipDigits(s, sp + 1)
        p5  == SkipSpaces(s, ep)
        p6  == SkipSpaces(s, p5 + 1)
        sd  == DateEnd(s, p6)
        p7  == SkipSpaces(s, sd)
        p8  == IF At(s, p7) \in {",", ";"} THEN p7 + 1 ELSE p7
        p9  == SkipSpaces(s, p8)
        hasRev == At(s, p9) = "Revised"
        r1  == SkipSpaces(s, p9 + 1)
        r2  == IF At(s, r1) = ":" THEN r1 + 1 ELSE r1
        r3  == IF IsDate(s, r2) THEN SkipSpaces(s, DateEnd(s, r2)) ELSE r2
        p10 == IF hasRev THEN r3 + 1 ELSE p9
        p11 == SkipSpaces(s, p10)
        p12 == SkipSpaces(s, p11 + 1)
        fin == IF IsDate(s, p12) THEN SkipSpaces(s, DateEnd(s, p12)) ELSE p12
        ok  == /\ At(s, p0) \in {JMLR, JMLRLower}
               /\ At(s, p3) = "("
               /\ yr - (p3 + 1) = 4
               /\ At(s, yr) = ")"
               /\ sp > p4
               /\ At(s, sp) \in {"-", ENDASH}
               /\ ep > sp + 1
               /\ At(s, p5) = "Submitted"
               /\ IsDate(s, p6)
               /\ hasRev => At(s, r3) = ";"
               /\ At(s, p11) = "Published"
               /\ fin = Len(s) + 1
    IN  IF ok
        THEN [ok |-> TRUE,
              volume |-> IF v > p2 THEN SubSeq(s, p2, p3 - 1) ELSE None,
              year |-> SubSeq(s, p3 + 1, yr - 1),
              start_page |-> SubSeq(s, p4, sp - 1),
              end_page |-> SubSeq(s, sp + 1, ep - 1),
              submitted |-> SubSeq(s, p6, sd - 1),
              revised |-> IF hasRev THEN SubSeq(s, r2, r3 - 1) ELSE None,
              published |-> IF IsDate(s, p12) THEN SubSeq(s, p12, fin - 1) ELSE None]
        ELSE NoMatch

\* the groups taken without .strip()
Group_no_strip(g) == IF g = None THEN <<>> ELSE g

\* match.group(k).strip() if match.group(k) else ""
Group(g) == IF g = None \/ g = <<>> THEN <<>> ELSE Strip(g)

\* year_str.split("/")
SplitSlash(s) ==
    LET k == CHOOSE j \in 1..Len(s) : s[j] = "/"
    IN  <<SubSeq(s, 1, k - 1), SubSeq(s, k + 1, Len(s))>>

\* two-digit years from this value on belong to the 1900s
CenturyPivot == 90

\* year_process with the test submitted_year > 90
year_process_gt(year_str) ==
    IF year_str # <<>>
    THEN LET parts == SplitSlash(year_str)
             submitted_month == DigitsToInt(Strip(parts[1]))
             submitted_year == DigitsToInt(Strip(parts[2]))
         IN  IF submitted_year > CenturyPivot
             THEN <<"1", "9">> \o Pad2(submitted_year) \o <<".">> \o Pad2(submitted_month)
             ELSE <<"2", "0">> \o Pad2(submitted_year) \o <<".">> \o Pad2(submitted_month)
    ELSE year_str

\* year_process without the test: every year is taken to be in the 2000s
year_process_2000(year_str) ==
    IF year_str # <<>>
    THEN LET parts == SplitSlash(year_str)
             submitted_month == DigitsToInt(Strip(parts[1]))
             submitted_year == DigitsToInt(Strip(parts[2]))
         IN  <<"2", "0">> \o Pad2(submitted_year) \o <<".">> \o Pad2(submitted_month)
    ELSE year_str

year_process(year_str) ==
    IF year_str # <<>>
    THEN LET parts == SplitSlash(year_str)
             submitted_month == DigitsToInt(Strip(parts[1]))
             submitted_year == DigitsToInt(Strip(parts[2]))
         IN  IF submitted_year >= CenturyPivot
             THEN <<"1", "9">> \o Pad2(submitted_year) \o <<".">> \o Pad2(submitted_month)
             ELSE <<"2", "0">> \o Pad2(submitted_year) \o <<".">> \o Pad2(submitted_month)
    ELSE year_str

\* n_pages without the + 1
n_pages_of_difference(start_page, end_page) ==
    IF start_page # <<>> /\ end_page # <<>>
    THEN IntToStr(DigitsToInt(end_page) - DigitsToInt(start_page))
    ELSE <<>>

\* str(int(end_page) - int(start_page) + 1) if start_page and end_page else ""
n_pages_of(start_page, end_page) ==
    IF start_page # <<>> /\ end_page # <<>>
    THEN IntToStr(DigitsToInt(end_page) - DigitsToInt(start_page) + 1)
    ELSE <<>>

Unset ==
    [volume |-> <<>>, year |-> <<>>, n_pages |-> <<>>,
     submitted |-> <<>>, revised |-> <<>>, published |-> <<>>]

\* the dictionary parse_header builds from a successful match
header_fields(m) ==
    [volume |-> Group(m.volume),
     year |-> Group(m.year),
     n_pages |-> n_pages_of(Group(m.start_page), Group(m.end_page)),
     submitted |-> year_process(Group(m.submitted)),
     revised |-> year_process(Group(m.revised)),
     published |-> year_process(Group(m.published))]

\* fine_filter_pieces popping the first piece whether or not it is the header
pop_header_always(p) ==
    IF Contains(p[1].text, JMLR)
    THEN [header |-> p[1].text, pieces |-> Tail(p)]
    ELSE [header |-> <<>>, pieces |-> Tail(p)]

\* the first lines of fine_filter_pieces: the header popped off the pieces
pop_header(p) ==
    IF Contains(p[1].text, JMLR)
    THEN [header |-> p[1].text, pieces |-> Tail(p)]
    ELSE [header |-> <<>>, pieces |-> p]

---------------------------------------------------------------------------
(* Texts and spans: proc_jmlr.py. *)

\* the single character U+FB01, the ligature of f and i
LIGATURE_FI == "fi-ligature"

\* the single character U+0131, the i without a dot: it has no decomposition,
\* lower() leaves it alone and upper() makes it "I"
DOTLESS_I == "dotless-i"

\* no compatibility decomposition at all
NFKD_no_decomposition(c) == <<c>>

\* unicodedata.normalize("NFKD", c) of one character
NFKD(c) == IF c = LIGATURE_FI THEN <<"f", "i">> ELSE <<c>>

UpperCase == <<"A", "B", "F", "I">>

LowerCase == <<"a", "b", "f", "i">>

\* c.lower()
Lower(c) ==
    IF \E k \in 1..Len(UpperCase) : UpperCase[k] = c
    THEN LowerCase[CHOOSE k \in 1..Len(UpperCase) : UpperCase[k] = c]
    ELSE c

\* ord("0") <= ord(c) <= ord("9") or ord("a") <= ord(c) <= ord("z")
IsLowerAlnum(c) ==
    \/ IsDigit(c)
    \/ \E k \in 1..Len(LowerCase) : LowerCase[k] = c
    \/ c \in {"d", "p", "x"}

\* the letters and digits of unicodedata.normalize("NFKD", s).lower()
RECURSIVE Alphanumeric(_)
Alphanumeric(str) ==
    IF str = <<>> THEN <<>>
    ELSE LET cs == NFKD(str[1])
             low == [k \in 1..Len(cs) |-> Lower(cs[k])]
         IN  SelectSeq(low, IsLowerAlnum) \o Alphanumeric(Tail(str))

compare_alphanumeric(s1, s2) == Alphanumeric(s1) = Alphanumeric(s2)

\* \d{1,2}/\d{2} at p, where no digit may follow
IsDate2(s, p) ==
    LET m == SkipDigits(s, p)
        y == SkipDigits(s, m + 1)
    IN  /\ m - p \in 1..2
        /\ At(s, m) = "/"
        /\ y - (m + 1) = 2

\* (?:&\s*\d{1,2}/\d{2}\s*)* from p on: the position behind it
RECURSIVE SkipAmpersandDates(_, _)
SkipAmpersandDates(s, p) ==
    IF At(s, p) = "&" /\ IsDate2(s, SkipSpaces(s, p + 1))
    THEN SkipAmpersandDates(s, SkipSpaces(s, DateEnd(s, SkipSpaces(s, p + 1))))
    ELSE p

\* bool(re.match(pattern, s)) of is_valid_jmlr_format, read left to right
is_valid_jmlr_format(s) ==
    LET p0  == SkipSpaces(s, 1)
        p1  == SkipSpaces(s, p0 + 1)
        p2  == IF At(s, p1) = "volume" THEN SkipSpaces(s, p1 + 1) ELSE p1
        v   == SkipDigits(s, p2)
        p3  == IF v > p2 THEN SkipSpaces(s, v) ELSE p2
        yr  == SkipDigits(s, p3 + 1)
        p4  == SkipSpaces(s, yr + 1)
        sp  == SkipDigits(s, p4)
        ep  == SkipDigits(s, sp + 1)
        p5  == SkipSpaces(s, ep)
        p6  == SkipSpaces(s, p5 + 1)
        p7  == SkipSpaces(s, DateEnd(s, p6))
        p8  == IF At(s, p7) = ";" THEN p7 + 1 ELSE p7
        p9  == SkipSpaces(s, p8)
        hasRev == At(s, p9) = "Revised"
        r1  == SkipSpaces(s, p9 + 1)
        r2  == IF IsDate2(s, r1)
               THEN SkipAmpersandDates(s, SkipSpaces(s, DateEnd(s, r1)))
               ELSE r1
        p10 == IF hasRev THEN r2 + 1 ELSE p9
        p11 == SkipSpaces(s, p10)
        p12 == SkipSpaces(s, p11 + 1)
        fin == IF IsDate2(s, p12) THEN SkipSpaces(s, DateEnd(s, p12)) ELSE p12
    IN  /\ At(s, p0) = JMLR
        /\ At(s, p3) = "("
        /\ yr - (p3 + 1) = 4
        /\ At(s, yr) = ")"
        /\ sp > p4
        /\ At(s, sp) = "-"
        /\ ep > sp + 1
        /\ At(s, p5) = "Submitted"
        /\ IsDate2(s, p6)
        /\ hasRev => At(s, r2) = ";"
        /\ At(s, p11) = "Published"
        /\ fin = Len(s) + 1

\* the character U+2020
DAGGER == "dagger"

\* [\*†♢♯♭‡∗]: of the seven footnote glyphs, the two that are also cut off the
\* author names
IdGlyphs == {"*", DAGGER}

\* the position behind (?:\d+|[\*†♢♯♭‡∗]) at p; p itself when there is none
IdTokenEnd(s, p) == IF At(s, p) \in IdGlyphs THEN p + 1 ELSE SkipDigits(s, p)

\* (?:\s*,\s*(?:\d+|[\*†♢♯♭‡∗]))* from p on: the position behind it
RECURSIVE SkipIdTokens(_, _)
SkipIdTokens(s, p) ==
    LET c == SkipSpaces(s, p)
        t == SkipSpaces(s, c + 1)
    IN  IF At(s, c) = "," /\ IdTokenEnd(s, t) > t
        THEN SkipIdTokens(s, IdTokenEnd(s, t))
        ELSE p

\* a glyph alone is an id as well
is_valid_id_lone_glyph(s) ==
    LET p0 == SkipSpaces(s, 1)
        p1 == IdTokenEnd(s, p0)
        p2 == SkipIdTokens(s, p1)
        p3 == SkipSpaces(s, p2)
        p4 == IF At(s, p3) = "," THEN SkipSpaces(s, p3 + 1) ELSE p3
    IN  p1 > p0 /\ p4 = Len(s) + 1

\* is_valid_id: the pattern read left to right, and not a glyph alone
is_valid_id(s) ==
    LET p0 == SkipSpaces(s, 1)
        p1 == IdTokenEnd(s, p0)
        p2 == SkipIdTokens(s, p1)
        p3 == SkipSpaces(s, p2)
        p4 == IF At(s, p3) = "," THEN SkipSpaces(s, p3 + 1) ELSE p3
    IN  /\ p1 > p0
        /\ p4 = Len(s) + 1
        /\ ~(At(s, p0) \in IdGlyphs /\ SkipSpaces(s, p0 + 1) = Len(s) + 1)

\* a span of inspect_fonts_pymupdf: the k-th of the page, on a line of its own
Span(text, k) ==
    [text |-> text, location |-> <<0, 10 * k, 50, 10 * k + 8>>, size |-> 10, font |-> "Roman"]

\* s[:-4] if s.endswith(".pdf") else s
strip_pdf(s) ==
    IF Len(s) >= 4 /\ SubSeq(s, Len(s) - 3, Len(s)) = <<".", "p", "d", "f">>
    THEN SubSeq(s, 1, Len(s) - 4)
    ELSE s

\* what ret holds until analysis_result returns
NoRet == [ok |-> FALSE, title |-> <<>>, reason |-> "not returned"]

---------------------------------------------------------------------------
(* The inputs of parse_jmlr_pdf. *)

\* texts of the pieces the coarse filter tells apart
CoarseTexts ==
    {<<"x">>, <<"Editor">>, <<"Abstract">>, <<COPYRIGHT>>, <<"Editor", COPYRIGHT>>}

\* (x0, y0) of a piece: the first is right of and above the second
CoarsePlaces == {<<1, 0>>, <<0, 1>>}

CoarsePieces == {Piece(t, xy[1], xy[2]) : t \in CoarseTexts, xy \in CoarsePlaces}

RECURSIVE ListsUpTo(_, _)
ListsUpTo(S, n) ==
    IF n = 0 THEN {<<>>}
    ELSE LET shorter == ListsUpTo(S, n - 1)
         IN  shorter \cup {Append(l, e) : l \in {m \in shorter : Len(m) = n - 1}, e \in S}

PrefixParts == {<<JMLR>>, <<JMLRLower>>, <<>>, <<"x", JMLR>>}

VolumeParts == {<<>>, <<"2", "1", " ">>, <<"volume", " ", "1", " ">>}

YearParts == {<<"(", "2", "0", "2", "0", ")">>, <<"(", "2", "0", ")">>}

PageParts == {<<"1", "-", "3", "7">>, <<"3", "7", "-", "1">>, <<"5", ENDASH, "5">>}

SepParts == {<<" ">>, <<"\n">>}

PunctParts == {<<";">>, <<",">>, <<>>}

SubmittedDates ==
    {<<"9", "/", "1", "8">>, <<"9", "/", "8", "9">>, <<"9", "/", "9", "0">>,
     <<"1", "2", "/", "5">>}

RevisedParts ==
    {<<>>,
     <<"Revised", " ", "1", "2", "/", "1", "9", ";", " ">>,
     <<"Revised", " ", "1", "/", "1", "9", " ", "&", " ", "5", "/", "1", "9", ";", " ">>,
     <<"Revised", ";", " ">>,
     <<"Revised", ":", "3", "/", "9", "9", " ", ";", " ">>,
     <<"Revised", " ", "1", "2", "/", "1", "9", " ">>}

PublishedParts ==
    {<<"Published", " ", "9", "/", "2", "0">>,
     <<"Published">>,
     <<"Published", " ", "1", "1", "/", "9", "9", "\n">>}

MakeHeader(pre, vol, yr, pg, sep, sub, pu, rev, pub) ==
    pre \o <<" ">> \o vol \o yr \o <<" ">> \o pg \o sep
        \o <<"Submitted", " ">> \o sub \o pu \o <<" ">> \o rev \o pub

\* "Journal of Machine Learning Research 21 (2020) 1-37 Submitted 9/18; Revised
\* 12/19; Published 9/20", with sep before "Submitted"
EndToEndHeader(sep) ==
    MakeHeader(<<JMLR>>, <<"2", "1", " ">>, <<"(", "2", "0", "2", "0", ")">>,
               <<"1", "-", "3", "7">>, sep, <<"9", "/", "1", "8">>, <<";">>,
               <<"Revised", " ", "1", "2", "/", "1", "9", ";", " ">>,
               <<"Published", " ", "9", "/", "2", "0">>)

HeaderTexts ==
    {MakeHeader(pre, vol, yr, pg, sep, <<"9", "/", "1", "8">>, pu,
                <<"Revised", " ", "1", "2", "/", "1", "9", ";", " ">>,
                <<"Published", " ", "9", "/", "2", "0">>) :
        pre \in PrefixParts, vol \in VolumeParts, yr \in YearParts,
        pg \in PageParts, sep \in SepParts, pu \in PunctParts}
    \cup
    {MakeHeader(<<JMLR>>, <<"2", "1", " ">>, <<"(", "2", "0", "2", "0", ")">>,
                <<"1", "-", "3", "7">>, <<" ">>, sub, <<";">>, rev, pub) :
        sub \in SubmittedDates, rev \in RevisedParts, pub \in PublishedParts}

\* a first page: the header, the editor line, the copyright line
HeaderPage(h) ==
    <<Piece(h, 0, 0), Piece(<<"Editor">>, 0, 1), Piece(<<COPYRIGHT>>, 0, 2)>>

---------------------------------------------------------------------------
(* parse_jmlr_pdf, step by step. *)

\* compare_alphanumeric is not being called on its own
compare_idle ==
    /\ str1 = <<>>
    /\ str2 = <<>>
    /\ alphanumeric1 = <<>>
    /\ alphanumeric2 = <<>>
    /\ equal = FALSE

\* no batch driver runs
batch_idle ==
    /\ driver = "none"
    /\ worklist = <<>>
    /\ pdf = 0
    /\ success_count = 0
    /\ fail_count = 0
    /\ processed = <<>>

\* is_valid_id is not being called on its own
id_idle ==
    /\ id_text = <<>>
    /\ id_valid = FALSE

\* analysis_normal_format has not been called
normal_idle ==
    /\ editor_line = -1
    /\ authors_line_list = <<>>
    /\ authors = <<>>
    /\ editor = None

Init ==
    /\ pc = "start"
    /\ pieces \in ListsUpTo(CoarsePieces, MaxPieces) \cup {HeaderPage(h) : h \in HeaderTexts}
    /\ i = 0
    /\ left_index = -1
    /\ right_index = -1
    /\ filtered_pieces = NoList
    /\ exc = "none"
    /\ header = <<>>
    /\ match = NoMatch
    /\ header_info = Unset
    /\ fine_pieces = NoList
    /\ result = <<>>
    /\ pdf_name = <<>>
    /\ line = 0
    /\ title = <<>>
    /\ ret = NoRet
    /\ compare_idle
    /\ normal_idle
    /\ id_idle
    /\ batch_idle

\* parse_jmlr_pdf: no pieces is an error; else the pieces are sorted in place
SortStep ==
    /\ pc = "start"
    /\ IF Len(pieces) = 0
       THEN /\ exc' = "JMLRPDFExtractionError"
            /\ pc' = "raised"
            /\ pieces' = pieces
       ELSE /\ pieces' = SortPieces(pieces)
            /\ pc' = "coarse_loop"
            /\ exc' = exc
    /\ UNCHANGED <<i, left_index, right_index, filtered_pieces,
                   header, match, header_info, fine_pieces>>
    /\ UNCHANGED <<title_vars, compare_vars, normal_vars, batch_vars, id_vars>>

\* coarse_filter_pieces: one iteration of the loop
CoarseScan ==
    /\ pc = "coarse_loop"
    /\ i < Len(pieces)
    /\ left_index' = ScanLeft(pieces, i, left_index)
    /\ right_index' = ScanRight(pieces, i, right_index)
    /\ i' = i + 1
    /\ UNCHANGED <<pc, pieces, filtered_pieces, exc, header, match, header_info, fine_pieces>>
    /\ UNCHANGED <<title_vars, compare_vars, normal_vars, batch_vars, id_vars>>

\* coarse_filter_pieces: the filtered list is returned, or the error raised
CoarseReturn ==
    /\ pc = "coarse_loop"
    /\ i = Len(pieces)
    /\ LET r == coarse_filter_return(pieces, left_index, right_index)
       IN  /\ pieces' = r.arg
           /\ filtered_pieces' = r.ret
           /\ exc' = r.exc
           /\ pc' = IF r.exc = "none" THEN "fine" ELSE "coarse_raised"
    /\ UNCHANGED <<i, left_index, right_index, header, match, header_info, fine_pieces>>
    /\ UNCHANGED <<title_vars, compare_vars, normal_vars, batch_vars, id_vars>>

\* fine_filter_pieces: the first piece is popped as the header, or a warning printed
FinePop ==
    /\ pc = "fine"
    /\ LET r == pop_header(filtered_pieces)
       IN  /\ header' = r.header
           /\ fine_pieces' = r.pieces
    /\ pc' = "parse_header"
    /\ UNCHANGED <<pieces, i, left_index, right_index, filtered_pieces, exc, match, header_info>>
    /\ UNCHANGED <<title_vars, compare_vars, normal_vars, batch_vars, id_vars>>

\* parse_header: nothing to parse, or the regular expression is applied
ParseHeaderMatch ==
    /\ pc = "parse_header"
    /\ IF Len(header) = 0
       THEN /\ header_info' = Unset
            /\ match' = match
            /\ pc' = "returned"
       ELSE /\ match' = header_match(header)
            /\ header_info' = header_info
            /\ pc' = "parse_groups"
    /\ UNCHANGED <<pieces, i, left_index, right_index, filtered_pieces, exc, header, fine_pieces>>
    /\ UNCHANGED <<title_vars, compare_vars, normal_vars, batch_vars, id_vars>>

\* parse_header: the fields of a match, or a warning and every field unset
ParseHeaderReturn ==
    /\ pc = "parse_groups"
    /\ header_info' = IF match.ok THEN header_fields(match) ELSE Unset
    /\ pc' = "returned"
    /\ UNCHANGED <<pieces, i, left_index, right_index, filtered_pieces, exc, header, match,
                   fine_pieces>>
    /\ UNCHANGED <<title_vars, compare_vars, normal_vars, batch_vars, id_vars>>

Next ==
    \/ SortStep
    \/ CoarseScan
    \/ CoarseReturn
    \/ FinePop
    \/ ParseHeaderMatch
    \/ ParseHeaderReturn

Spec == Init /\ [][Next]_vars

---------------------------------------------------------------------------
(* Properties of coarse_filter_pieces. *)

\* coarse_filter_pieces has returned or raised
CoarseDone == pc \in {"coarse_raised", "fine", "parse_header", "parse_groups", "returned"}

AnchorsInOrder == left_index # -1 /\ right_index # -1 /\ left_index < right_index

\* C1: when the cut index L and the copyright index R are both found and L < R,
\* the list returned is the spans 0..L-1 followed by the spans R..end, in their
\* order: nothing else is dropped, nothing else is kept.
C1_KeptSpans ==
    (CoarseDone /\ AnchorsInOrder) =>
        /\ exc = "none"
        /\ filtered_pieces # NoList
        /\ Len(filtered_pieces) = left_index + (Len(pieces) - right_index)
        /\ \A k \in 1..left_index : filtered_pieces[k] = pieces[k]
        /\ \A k \in 1..(Len(pieces) - right_index) :
              filtered_pieces[left_index + k] = pieces[right_index + k]

\* a span is kept in front of the cut, the cut span is dropped, the footer is kept
C1_Witness ==
    /\ CoarseDone
    /\ AnchorsInOrder
    /\ left_index >= 1
    /\ Len(filtered_pieces) < Len(pieces)
    /\ filtered_pieces[Len(filtered_pieces)] = pieces[Len(pieces)]

NoEditorAbstractText ==
    \A k \in 1..Len(pieces) : ~HasEditor(pieces[k].text) /\ ~HasAbstract(pieces[k].text)

NoCopyrightText == \A k \in 1..Len(pieces) : ~HasCopyright(pieces[k].text)

C3_ArgumentUnchanged == [][pc = "coarse_loop" => pieces' = pieces]_vars

\* the call has returned a list shorter than the one it was given
C3_Witness ==
    /\ CoarseDone
    /\ exc = "none"
    /\ Len(filtered_pieces) < Len(pieces)
    /\ Len(pieces) >= 3

---------------------------------------------------------------------------
(* Properties of parse_header. *)

DateFields == {"submitted", "revised", "published"}

\* the month and the two-digit year of a captured token m/yy
TokenMonth(t) == DigitsToInt(SubSeq(t, 1, (CHOOSE k \in 1..Len(t) : t[k] = "/") - 1))

TokenYear(t) == DigitsToInt(SubSeq(t, (CHOOSE k \in 1..Len(t) : t[k] = "/") + 1, Len(t)))

\* out is YYYY.MM for the year yyyy and the month mm
IsYearDotMonth(out, yyyy, mm) ==
    /\ Len(out) = 7
    /\ \A k \in {1, 2, 3, 4, 6, 7} : IsDigit(out[k])
    /\ out[5] = "."
    /\ DigitsToInt(SubSeq(out, 1, 4)) = yyyy
    /\ DigitsToInt(SubSeq(out, 6, 7)) = mm

\* C4: every captured token m/yy becomes YYYY.MM with YYYY = 1900 + yy when
\* yy >= 90 and 2000 + yy otherwise, MM the month padded to two digits; the same
\* for submitted, revised and published.
C4_DateNormalization ==
    (pc = "returned" /\ match.ok) =>
        \A f \in DateFields :
            LET t == Strip(match[f])
            IN  IF match[f] = None \/ t = <<>>
                THEN header_info[f] = <<>>
                ELSE IsYearDotMonth(header_info[f],
                                    IF TokenYear(t) >= 90 THEN 1900 + TokenYear(t)
                                    ELSE 2000 + TokenYear(t),
                                    TokenMonth(t))

\* a year of the 1900s, a year of the 2000s and a revised date in one header
C4_Witness ==
    /\ pc = "returned"
    /\ match.ok
    /\ Strip(match.submitted) = <<"9", "/", "9", "0">>
    /\ header_info.submitted = <<"1", "9", "9", "0", ".", "0", "9">>
    /\ match.revised # None /\ header_info.revised # <<>>
    /\ match.published # None /\ header_info.published[1] = "2"

\* C5, as claimed: Submitted 9/89 gives 1989.09 and Submitted 9/90 gives 1990.09.
C5_Boundary_Claimed ==
    (pc = "returned" /\ match.ok) =>
        /\ match.submitted = <<"9", "/", "8", "9">> =>
              header_info.submitted = <<"1", "9", "8", "9", ".", "0", "9">>
        /\ match.submitted = <<"9", "/", "9", "0">> =>
              header_info.submitted = <<"1", "9", "9", "0", ".", "0", "9">>

\* C5, as the code has it: Submitted 9/89 gives 2089.09 (89 is below the pivot
\* 90) and Submitted 9/90 gives 1990.09.
C5_Boundary ==
    (pc = "returned" /\ match.ok) =>
        /\ match.submitted = <<"9", "/", "8", "9">> =>
              header_info.submitted = <<"2", "0", "8", "9", ".", "0", "9">>
        /\ match.submitted = <<"9", "/", "9", "0">> =>
              header_info.submitted = <<"1", "9", "9", "0", ".", "0", "9">>

\* a header with Submitted 9/89 has been parsed
C5_Witness ==
    /\ pc = "returned"
    /\ match.ok
    /\ match.submitted = <<"9", "/", "8", "9">>
    /\ header_info.submitted # <<>>

\* the integer a decimal string denotes
StrToInt(s) == IF s[1] = "-" THEN 0 - DigitsToInt(Tail(s)) ELSE DigitsToInt(s)

IsDecimal(s) ==
    /\ s # <<>>
    /\ IF s[1] = "-"
       THEN Len(s) >= 2 /\ s[2] # "0" /\ \A k \in 2..Len(s) : IsDigit(s[k])
       ELSE (Len(s) >= 2 => s[1] # "0") /\ \A k \in 1..Len(s) : IsDigit(s[k])

\* C6: when the header matches with start page s and end page e, n_pages is
\* e - s + 1 as a decimal string; n_pages is unset exactly when the header does
\* not match.
C6_PageCount ==
    pc = "returned" =>
        /\ match.ok =>
              /\ IsDecimal(header_info.n_pages)
              /\ StrToInt(header_info.n_pages)
                    = DigitsToInt(match.end_page) - DigitsToInt(match.start_page) + 1
        /\ header_info.n_pages = <<>> <=> ~match.ok

\* a header with the page range 1-37 has been parsed
C6_Witness ==
    /\ pc = "returned"
    /\ match.ok
    /\ match.start_page = <<"1">>
    /\ match.end_page = <<"3", "7">>
    /\ header_info.n_pages = <<"3", "7">>

\* C7: the header "Journal of Machine Learning Research 21 (2020) 1-37 Submitted
\* 9/18; Revised 12/19; Published 9/20", with a space or a newline before
\* "Submitted", gives volume 21, year 2020, n_pages 37, submitted 2018.09,
\* revised 2019.12, published 2020.09.
C7_EndToEnd ==
    (pc = "returned" /\ header \in {EndToEndHeader(<<" ">>), EndToEndHeader(<<"\n">>)}) =>
        header_info = [volume |-> <<"2", "1">>,
                       year |-> <<"2", "0", "2", "0">>,
                       n_pages |-> <<"3", "7">>,
                       submitted |-> <<"2", "0", "1", "8", ".", "0", "9">>,
                       revised |-> <<"2", "0", "1", "9", ".", "1", "2">>,
                       published |-> <<"2", "0", "2", "0", ".", "0", "9">>]

\* the header with the newline has been parsed
C7_Witness == pc = "returned" /\ header = EndToEndHeader(<<"\n">>)

\* C8: fine_filter_pieces does not fail because of the header.  Without the
\* journal-name literal in the first span, every field is unset and the list is
\* returned as it was; with the literal but no match of the grammar, every field
\* is unset and the list is returned without its first span.
C8_HeaderNeverFatal ==
    /\ pc \in {"fine", "parse_header", "parse_groups", "returned"} => exc = "none"
    /\ pc = "returned" =>
          /\ filtered_pieces # NoList
          /\ IF Contains(filtered_pieces[1].text, JMLR)
             THEN /\ fine_pieces = Tail(filtered_pieces)
                  /\ ~match.ok => header_info = Unset
             ELSE /\ fine_pieces = filtered_pieces
                  /\ header_info = Unset

\* the literal is there, the grammar does not match, the rest of the list is returned
C8_Witness ==
    /\ pc = "returned"
    /\ Contains(filtered_pieces[1].text, JMLR)
    /\ ~match.ok
    /\ header_info = Unset
    /\ fine_pieces = Tail(filtered_pieces)

\* a well-formed header whose Revised field lists two dates joined by "&"
AmpersandHeader ==
    MakeHeader(<<JMLR>>, <<"2", "1", " ">>, <<"(", "2", "0", "2", "0", ")">>,
               <<"1", "-", "3", "7">>, <<" ">>, <<"9", "/", "1", "8">>, <<";">>,
               <<"Revised", " ", "1", "/", "1", "9", " ", "&", " ", "5", "/", "1", "9", ";", " ">>,
               <<"Published", " ", "9", "/", "2", "0">>)

\* C9: a well-formed header whose Revised field lists several dates joined by "&"
\* matches the grammar: parse_header returns volume, year, n_pages, submitted and
\* published set.
C9_AmpersandRevised ==
    (pc = "returned" /\ header = AmpersandHeader) =>
        /\ header_info.volume # <<>>
        /\ header_info.year # <<>>
        /\ header_info.n_pages # <<>>
        /\ header_info.submitted # <<>>
        /\ header_info.published # <<>>

---------------------------------------------------------------------------
(* analysis_result, step by step: the header search and the title. *)

\* the citation header in one span, and cut in two spans
HeaderFirstHalf ==
    <<JMLR, " ", "2", "1", " ", "(", "2", "0", "2", "0", ")", " ", "1", "-", "3", "7">>

HeaderSecondHalf ==
    <<"Submitted", " ", "9", "/", "1", "8", ";", " ", "Published", " ", "9", "/", "2", "0">>

ResultTexts ==
    {HeaderFirstHalf \o HeaderSecondHalf, HeaderFirstHalf, HeaderSecondHalf,
     <<"A", " ">>, <<"b">>, <<LIGATURE_FI>>, <<"-">>}

PdfNames ==
    {<<"a", "b", ".", "p", "d", "f">>, <<"a", "-", "f", "i">>, <<"A", " ", "B", "f", "I", ".", "p", "d", "f">>}

ResultLists ==
    {[k \in 1..Len(l) |-> Span(l[k], k)] : l \in ListsUpTo(ResultTexts, MaxResult) \ {<<>>}}

InitTitle ==
    /\ pc = "analysis_result"
    /\ result \in ResultLists
    /\ pdf_name \in PdfNames
    /\ line = 0
    /\ header = <<>>
    /\ title = <<>>
    /\ ret = NoRet
    /\ pieces = <<>>
    /\ i = 0
    /\ left_index = -1
    /\ right_index = -1
    /\ filtered_pieces = NoList
    /\ exc = "none"
    /\ match = NoMatch
    /\ header_info = Unset
    /\ fine_pieces = NoList
    /\ compare_idle
    /\ normal_idle
    /\ id_idle
    /\ batch_idle

title_frame == UNCHANGED <<pieces, i, left_index, right_index, filtered_pieces, exc,
                           match, header_info, fine_pieces, compare_vars, normal_vars,
                           batch_vars, id_vars>>

\* line = 0; header = result[line]["text"]
AnalysisStart ==
    /\ pc = "analysis_result"
    /\ line' = 0
    /\ header' = result[1].text
    /\ pc' = "header_search"
    /\ UNCHANGED <<result, pdf_name, title, ret>>
    /\ title_frame

\* one iteration of the header search
HeaderSearchStep ==
    /\ pc = "header_search"
    /\ ~is_valid_jmlr_format(header) /\ line + 1 < Len(result)
    /\ line' = line + 1
    /\ header' = header \o result[line + 2].text
    /\ UNCHANGED <<pc, result, pdf_name, title, ret>>
    /\ title_frame

\* the line behind the header, or line 0
title_start(l, n) == IF l + 1 >= n THEN 0 ELSE l + 1

\* the header search ends; the extension is cut off; the title starts
HeaderSearchEnd ==
    /\ pc = "header_search"
    /\ ~(~is_valid_jmlr_format(header) /\ line + 1 < Len(result))
    /\ line' = title_start(line, Len(result))
    /\ pdf_name' = strip_pdf(pdf_name)
    /\ title' = result[title_start(line, Len(result)) + 1].text
    /\ pc' = "title_search"
    /\ UNCHANGED <<result, header, ret>>
    /\ title_frame

\* one iteration of the title accumulation
TitleStep ==
    /\ pc = "title_search"
    /\ line + 1 < Len(result) /\ ~compare_alphanumeric(title, pdf_name)
    /\ line' = line + 1
    /\ title' = title \o result[line + 2].text
    /\ UNCHANGED <<pc, result, pdf_name, header, ret>>
    /\ title_frame

\* if line >= len(result) - 1
title_not_found(l, n) == l >= n - 1

\* the accumulation ends: "cannot find title", or on to the lines of the title
TitleEnd ==
    /\ pc = "title_search"
    /\ ~(line + 1 < Len(result) /\ ~compare_alphanumeric(title, pdf_name))
    /\ IF title_not_found(line, Len(result))
       THEN /\ ret' = [ok |-> FALSE, title |-> pdf_name, reason |-> "cannot find title"]
            /\ pc' = "returned"
       ELSE /\ ret' = ret
            /\ pc' = "title_found"
    /\ UNCHANGED <<result, pdf_name, line, header, title>>
    /\ title_frame

NextTitle ==
    \/ AnalysisStart
    \/ HeaderSearchStep
    \/ HeaderSearchEnd
    \/ TitleStep
    \/ TitleEnd

SpecTitle == InitTitle /\ [][NextTitle]_vars

---------------------------------------------------------------------------
(* Properties of the title resolution of analysis_result. *)

\* the texts of the spans a..b (0-based, inclusive), joined
RECURSIVE JoinTexts(_, _, _)
JoinTexts(res, a, b) ==
    IF a > b THEN <<>> ELSE JoinTexts(res, a, b - 1) \o res[b + 1].text

\* the spans 0..k, joined, are the citation header
HeaderEndsAt(res, k) == is_valid_jmlr_format(JoinTexts(res, 0, k))

\* the index of the span immediately after the header; 0 when there is no header
\* or nothing after it
FirstAfterHeader(res) ==
    IF \E k \in 0..(Len(res) - 1) : HeaderEndsAt(res, k)
    THEN LET k == CHOOSE j \in 0..(Len(res) - 1) :
                     /\ HeaderEndsAt(res, j)
                     /\ \A m \in 0..(j - 1) : ~HeaderEndsAt(res, m)
         IN  IF k + 1 < Len(res) THEN k + 1 ELSE 0
    ELSE 0

\* the accumulation of the spans from the one after the header to e has the
\* projection of the canonical identifier
TitleMatchesAt(res, name, e) ==
    /\ e >= FirstAfterHeader(res)
    /\ Alphanumeric(JoinTexts(res, FirstAfterHeader(res), e)) = Alphanumeric(name)

TitleResolved == pc \in {"returned", "title_found"}

\* C10: the outcome is "cannot find title" exactly when no accumulation of
\* consecutive span texts, from the span after the header on, has the projection
\* of the canonical identifier; when one has, whichever span completes it, the
\* accumulation stops at the first such span and the title is resolved.
C10_TitleFoundIffMatch ==
    TitleResolved =>
        /\ ret.reason = "cannot find title"
              <=> ~\E e \in 0..(Len(result) - 1) : TitleMatchesAt(result, pdf_name, e)
        /\ pc = "title_found" =>
              /\ TitleMatchesAt(result, pdf_name, line)
              /\ \A e \in 0..(line - 1) : ~TitleMatchesAt(result, pdf_name, e)

\* what the code does: the title is resolved only by a match that ends before the
\* last span
C10_TitleFoundBeforeLastSpan ==
    TitleResolved =>
        /\ ret.reason = "cannot find title"
              <=> ~\E e \in 0..(Len(result) - 2) : TitleMatchesAt(result, pdf_name, e)
        /\ pc = "title_found" =>
              /\ TitleMatchesAt(result, pdf_name, line)
              /\ \A e \in 0..(line - 1) : ~TitleMatchesAt(result, pdf_name, e)

---------------------------------------------------------------------------
(* compare_alphanumeric, called on its own. *)

\* longest first argument of compare_alphanumeric
MaxStr == 2

CompareChars == {"f", "i", "I", LIGATURE_FI, DOTLESS_I, " ", "-", "1"}

CompareNames ==
    {<<>>, <<"f", "i">>, <<"f", "I">>, <<LIGATURE_FI>>, <<"I">>, <<DOTLESS_I>>,
     <<"1", " ", "i">>, <<"i", "-", "1">>, <<"f", "-", "i", "1">>, <<"-", " ">>}

\* c.lower() is one of a..z
IsLowerLetter(c) == \E k \in 1..Len(LowerCase) : LowerCase[k] = Lower(c)

\* pdf_normal_format.py: the letters and digits of the decomposition are kept
\* first, and lower-cased afterwards
RECURSIVE AlphanumericKeptThenLower(_)
AlphanumericKeptThenLower(str) ==
    IF str = <<>> THEN <<>>
    ELSE LET cs == NFKD(str[1])
             kept == SelectSeq(cs, LAMBDA c : IsDigit(c) \/ IsLowerLetter(c))
         IN  [k \in 1..Len(kept) |-> Lower(kept[k])] \o AlphanumericKeptThenLower(Tail(str))

\* compare_alphanumeric of pdf_normal_format.py
compare_alphanumeric_normal_format(s1, s2) ==
    AlphanumericKeptThenLower(s1) = AlphanumericKeptThenLower(s2)

\* the variables of parse_jmlr_pdf, unused
lite_idle ==
    /\ pieces = <<>>
    /\ i = 0
    /\ left_index = -1
    /\ right_index = -1
    /\ filtered_pieces = NoList
    /\ exc = "none"
    /\ header = <<>>
    /\ match = NoMatch
    /\ header_info = Unset
    /\ fine_pieces = NoList

\* the variables of analysis_result, unused
title_idle ==
    /\ result = <<>>
    /\ pdf_name = <<>>
    /\ line = 0
    /\ title = <<>>
    /\ ret = NoRet

InitCompare ==
    /\ pc = "compare_alphanumeric"
    /\ str1 \in ListsUpTo(CompareChars, MaxStr)
    /\ str2 \in CompareNames
    /\ alphanumeric1 = <<>>
    /\ alphanumeric2 = <<>>
    /\ equal = FALSE
    /\ lite_idle
    /\ title_idle
    /\ normal_idle
    /\ id_idle
    /\ batch_idle

\* the call: both projections, and their comparison
CompareCall ==
    /\ pc = "compare_alphanumeric"
    /\ alphanumeric1' = Alphanumeric(str1)
    /\ alphanumeric2' = Alphanumeric(str2)
    /\ equal' = compare_alphanumeric(str1, str2)
    /\ pc' = "compared"
    /\ UNCHANGED <<str1, str2, lite_vars, title_vars, normal_vars, batch_vars, id_vars>>

NextCompare == CompareCall

SpecCompare == InitCompare /\ [][NextCompare]_vars

---------------------------------------------------------------------------
(* Properties of compare_alphanumeric. *)

\* c.upper(), a text, of a character of CompareChars
Upper(c) ==
    IF c = LIGATURE_FI THEN <<"F", "I">>
    ELSE IF c = DOTLESS_I THEN <<"I">>
    ELSE IF \E k \in 1..Len(LowerCase) : LowerCase[k] = c
         THEN <<UpperCase[CHOOSE k \in 1..Len(LowerCase) : LowerCase[k] = c]>>
         ELSE <<c>>

\* s with the text t in the place of its k-th character
Replace(s, k, t) == SubSeq(s, 1, k - 1) \o t \o SubSeq(s, k + 1, Len(s))

\* s with the text t put behind its k-th character
InsertAt(s, k, t) == SubSeq(s, 1, k) \o t \o SubSeq(s, k + 1, Len(s))

IsAsciiLetter(c) ==
    \E k \in 1..Len(LowerCase) : c = LowerCase[k] \/ c = UpperCase[k]

\* s with one character in the other letter case
CaseChanges(s) ==
    {Replace(s, k, Upper(s[k])) : k \in 1..Len(s)}
        \cup {Replace(s, k, <<Lower(s[k])>>) : k \in 1..Len(s)}

\* s with one of its letters A..Z, a..z in the other letter case
AsciiCaseChanges(s) ==
    {Replace(s, k, Upper(s[k])) : k \in {j \in 1..Len(s) : IsAsciiLetter(s[j])}}
        \cup {Replace(s, k, <<Lower(s[k])>>) : k \in {j \in 1..Len(s) : IsAsciiLetter(s[j])}}

Separators == {" ", "-", ",", "."}

\* s with one white space or punctuation character more, or one less
SeparatorChanges(s) ==
    {InsertAt(s, k, <<c>>) : k \in 0..Len(s), c \in Separators}
        \cup {Replace(s, k, <<>>) : k \in {j \in 1..Len(s) : s[j] \in Separators}}

\* s with one "fi" spelled the other way
LigatureChanges(s) ==
    {Replace(s, k, <<"f", "i">>) : k \in {j \in 1..Len(s) : s[j] = LIGATURE_FI}}
        \cup {SubSeq(s, 1, k - 1) \o <<LIGATURE_FI>> \o SubSeq(s, k + 2, Len(s)) :
                k \in {j \in 1..(Len(s) - 1) : s[j] = "f" /\ s[j + 1] = "i"}}

\* the compatibility decomposition of a text
RECURSIVE Decomposed(_)
Decomposed(s) == IF s = <<>> THEN <<>> ELSE NFKD(s[1]) \o Decomposed(Tail(s))

\* the decomposition, lower-cased, with only 0..9 and a..z left
Projection(s) ==
    LET d == Decomposed(s)
    IN  SelectSeq([k \in 1..Len(d) |-> Lower(d[k])], IsLowerAlnum)

Compared == pc = "compared"

\* the value returned is that of the comparison of the projections, whichever
\* of the two implementations computes it; it is reflexive and symmetric
ComparesProjections ==
    /\ equal <=> (Projection(str1) = Projection(str2))
    /\ alphanumeric1 = Projection(str1)
    /\ alphanumeric2 = Projection(str2)
    /\ compare_alphanumeric_normal_format(str1, str2) = equal
    /\ compare_alphanumeric(str1, str1)
    /\ compare_alphanumeric(str2, str2)
    /\ compare_alphanumeric(str2, str1) = equal

\* the value returned is the same for every text of the set in the place of an
\* argument
SameFor(changes1, changes2) ==
    /\ \A e \in changes1 : compare_alphanumeric(e, str2) = equal
    /\ \A e \in changes2 : compare_alphanumeric(str1, e) = equal

---------------------------------------------------------------------------
(* analysis_result behind the title: the lines of the title, judge_format  *)
(* and analysis_normal_format.  Lengths are in tenths of a layout unit.    *)

\* location[0], location[1] and location[3] of the span at the 0-based line l
X0(res, l) == res[l + 1].location[1]

Y0(res, l) == res[l + 1].location[2]

Y1(res, l) == res[l + 1].location[4]

\* the words of the alphabet that are more than one character of the page
FixedWords ==
    {JMLR, "Submitted", "Revised", "Published", "volume", "Editor", "Editor:", "Abstract"}

EditorMarker == <<"Editor:">>

\* the first line from l on that does not start above the bottom of the line
\* ref: Len(res) when there is none
RECURSIVE next_pdf_line(_, _, _)
next_pdf_line(res, l, ref) ==
    IF l < Len(res) /\ Y0(res, l) < Y1(res, ref)
    THEN next_pdf_line(res, l + 1, ref)
    ELSE l

\* the while loop of judge_format: the line it ends at
RECURSIVE judge_format_loop(_, _, _)
judge_format_loop(now_str, l, res) ==
    IF ~is_valid_id(now_str) /\ l < Len(res)
    THEN judge_format_loop(now_str \o res[l + 1].text, l + 1, res)
    ELSE l

\* judge_format(line, result)
judge_format(l, res) == ~(judge_format_loop(<<>>, l + 1, res) >= Len(res))

\* no line is ever found
get_editor_line_none(res) == -1

\* get_editor_line(result): the first line whose text is "Editor:", -1 for None
get_editor_line(res) ==
    IF \E l \in 0..(Len(res) - 1) : res[l + 1].text = EditorMarker
    THEN CHOOSE l \in 0..(Len(res) - 1) :
            /\ res[l + 1].text = EditorMarker
            /\ \A m \in 0..(l - 1) : res[m + 1].text # EditorMarker
    ELSE -1

\* list(range(a, b))
RangeList(a, b) == IF b > a THEN [k \in 1..(b - a) |-> a + k - 1] ELSE <<>>

\* get_authors_line comparing the font alone
get_authors_line_font_only(first_authors_line, el, res) ==
    SelectSeq(RangeList(first_authors_line, el),
              LAMBDA l : res[l + 1].font = res[first_authors_line + 1].font)

\* get_authors_line(first_authors_line, editor_line, result)
get_authors_line(first_authors_line, el, res) ==
    SelectSeq(RangeList(first_authors_line, el),
              LAMBDA l : /\ res[l + 1].font = res[first_authors_line + 1].font
                         /\ res[l + 1].size = res[first_authors_line + 1].size)

Abs(n) == IF n < 0 THEN 0 - n ELSE n

\* the 5 of check_authors_aline, in tenths
AlignTolerance == 50

\* a name as far as the tolerance off fails
check_authors_aline_ge(list, res) ==
    \A k \in 1..Len(list) : ~(Abs(X0(res, list[k]) - X0(res, list[1])) >= AlignTolerance)

\* check_authors_aline(authors_line_list, result)
check_authors_aline(list, res) ==
    \A k \in 1..Len(list) : ~(Abs(X0(res, list[k]) - X0(res, list[1])) > AlignTolerance)

\* the text is looked at before now_line is stepped: the last span looked at
\* is the last that starts above the bottom of the name
RECURSIVE email_scan_before_step(_, _, _, _)
email_scan_before_step(res, author_line, now_line, find_email) ==
    IF Y1(res, author_line) > Y0(res, now_line)
    THEN IF now_line + 1 >= Len(res)
         THEN "IndexError"
         ELSE email_scan_before_step(res, author_line, now_line + 1,
                                     find_email \/ Contains(res[now_line + 1].text, "@"))
    ELSE IF find_email THEN "found" ELSE "not found"

\* the while loop of check_email_location for one author, from now_line on:
\* result[now_line] is read before now_line is compared with len(result)
RECURSIVE email_scan(_, _, _, _)
email_scan(res, author_line, now_line, find_email) ==
    IF Y1(res, author_line) > Y0(res, now_line)
    THEN IF now_line + 1 >= Len(res)
         THEN "IndexError"
         ELSE email_scan(res, author_line, now_line + 1,
                         find_email \/ Contains(res[now_line + 2].text, "@"))
    ELSE IF find_email THEN "found" ELSE "not found"

\* check_email_location(authors_line_list, result): "True", "False", or the
\* exception raised
RECURSIVE check_email_location(_, _)
check_email_location(list, res) ==
    IF list = <<>> THEN "True"
    ELSE LET scan == email_scan(res, Head(list), Head(list), FALSE)
         IN  IF scan = "found" THEN check_email_location(Tail(list), res)
             ELSE IF scan = "not found" THEN "False"
             ELSE scan

NameGlyphs == {"*", DAGGER}

\* while now_author[-1] in ["*", "†"]: now_author = now_author[:-1]
RECURSIVE strip_glyphs(_)
strip_glyphs(now_author) ==
    IF now_author # <<>> /\ now_author[Len(now_author)] \in NameGlyphs
    THEN strip_glyphs(SubSeq(now_author, 1, Len(now_author) - 1))
    ELSE now_author

\* now_author[-1] of the empty string
strip_glyphs_raises(now_author) == strip_glyphs(now_author) = <<>>

LowerLetters ==
    {"a", "b", "c", "d", "e", "f", "g", "h", "i", "j", "k", "l", "m",
     "n", "o", "p", "q", "r", "s", "t", "u", "v", "w", "x", "y", "z"}

UpperLetters ==
    {"A", "B", "C", "D", "E", "F", "G", "H", "I", "J", "K", "L", "M",
     "N", "O", "P", "Q", "R", "S", "T", "U", "V", "W", "X", "Y", "Z"}

AffiliationPunctuation == {" ", ",", ".", "-", "&", "(", ")", "/"}

\* len(text) == 1
IsOneCharacter(text) == Len(text) = 1 /\ text[1] \notin FixedWords

\* the guard accepts every single character
is_error_str_never(text) == FALSE

\* the test of lines 275-284
is_error_str(text) ==
    /\ IsOneCharacter(text)
    /\ ~IsDigit(text[1])
    /\ text[1] \notin LowerLetters
    /\ text[1] \notin UpperLetters
    /\ text[1] \notin AffiliationPunctuation

\* the inner while loop of an author from line l on; next is the line of the
\* next author, -1 for the last author
RECURSIVE collect_affiliation(_, _, _, _)
collect_affiliation(res, l, next, affiliation) ==
    IF l < Len(res) /\ res[l + 1].text # EditorMarker /\ l # next
    THEN IF is_error_str(res[l + 1].text)
         THEN [line |-> l, affiliation |-> affiliation, error |-> TRUE]
         ELSE collect_affiliation(res, l + 1, next, Append(affiliation, res[l + 1].text))
    ELSE [line |-> l, affiliation |-> affiliation, error |-> FALSE]

\* the first author is looked at
first_affiliation_empty(as) == as[1].affiliation = <<>>

\* metadata_dict["authors"][-1]["affiliation"] == []
last_affiliation_empty(as) == as[Len(as)].affiliation = <<>>

\* the span at the line l itself
editor_at_line(res, l) == IF l < Len(res) THEN res[l + 1].text ELSE None

\* result[line + 1]["text"] if line + 1 < len(result) else None
editor_behind_line(res, l) == IF l + 1 < Len(res) THEN res[l + 2].text ELSE None

\* nothing is filled in
back_fill_nothing(as, a) == as

\* every author without affiliation gets that of the last author
RECURSIVE back_fill_from_last(_, _)
back_fill_from_last(as, a) ==
    IF a < 1 THEN as
    ELSE back_fill_from_last(IF as[a].affiliation = <<>>
                             THEN [as EXCEPT ![a].affiliation = as[Len(as)].affiliation]
                             ELSE as,
                             a - 1)

\* for author in range(len(authors) - 2, -1, -1), from the 1-based a down
RECURSIVE back_fill(_, _)
back_fill(as, a) ==
    IF a < 1 THEN as
    ELSE back_fill(IF as[a].affiliation = <<>>
                   THEN [as EXCEPT ![a].affiliation = as[a + 1].affiliation]
                   ELSE as,
                   a - 1)

---------------------------------------------------------------------------
(* The pages given to analysis_result: a citation header, a title, author  *)
(* blocks, and what follows them.                                          *)

\* most author blocks of a page whose blocks are of the common kinds
MaxAuthors == 3

\* most author blocks of a page whose blocks are of any kind
MaxBlocks == 2

\* a span as the page is written down: down is 1 when it starts a new row
Written(text, font, size, x0, down) ==
    [text |-> text, font |-> font, size |-> size, x0 |-> x0, down |-> down]

\* an author name at the left of a new row
Name(text, x0) == Written(text, "Bold", 10, x0, 1)

\* a span further right on the row
Right(text) == Written(text, "Roman", 10, 3000, 0)

\* a span at the left of a new row
Below(text) == Written(text, "Roman", 10, 0, 1)

\* the row of the k-th span written
RECURSIVE RowOf(_, _)
RowOf(ws, k) == IF k = 0 THEN 0 ELSE RowOf(ws, k - 1) + ws[k].down

\* the spans inspect_fonts_pymupdf returns for what is written
Page(ws) ==
    [k \in 1..Len(ws) |->
        [text |-> ws[k].text,
         location |-> <<ws[k].x0, 100 * RowOf(ws, k), ws[k].x0 + 400, 100 * RowOf(ws, k) + 80>>,
         size |-> ws[k].size,
         font |-> ws[k].font]]

Email == <<"a", "@", "b">>

Univ == <<"U", "n", "i", "v", " ", "X">>

PageName == <<"a", "b", ".", "p", "d", "f">>

\* header and title in one span each
PlainHead ==
    <<Written(HeaderFirstHalf \o HeaderSecondHalf, "Roman", 9, 0, 0),
      Written(<<"A", " ", "b">>, "Bold", 14, 0, 1)>>

\* header and title in two spans each, the title on two rows with a footnote mark
SplitHead ==
    <<Written(HeaderFirstHalf, "Roman", 9, 0, 0),
      Written(HeaderSecondHalf, "Roman", 9, 3000, 0),
      Written(<<"A", " ">>, "Bold", 14, 0, 1),
      Written(<<"b">>, "Bold", 14, 0, 1),
      Written(<<"*">>, "Roman", 7, 3000, 0)>>

CommonBlocks ==
    {<<Name(<<"A">>, 0), Right(Email)>>,
     <<Name(<<"b", "*">>, 0), Right(Email), Below(Univ)>>,
     <<Name(<<"c", DAGGER, "*">>, 50), Right(Email), Below(Univ), Right(<<"&">>), Below(<<"Y">>)>>,
     <<Name(<<"A">>, 0), Below(Email)>>}

OtherBlocks ==
    {<<Name(<<"d">>, 51), Right(Email), Below(Univ)>>,
     <<Name(<<"A">>, 0), Right(Email), Below(<<"#">>)>>,
     <<Name(<<"A">>, 0), Right(Email), Below(Univ), Below(<<"#">>), Below(<<"Y">>)>>,
     <<Name(<<"A">>, 0), Right(<<"1", ",", " ", "2">>)>>,
     <<Name(<<"A">>, 0), Right(<<"*">>), Right(<<",">>)>>,
     <<Name(<<"A">>, 0)>>,
     <<Name(<<"A">>, 0), Below(Univ), Below(Email)>>,
     <<Name(<<"*">>, 0), Right(Email), Below(Univ)>>,
     <<Name(<<"A">>, 0), Right(Email), Written(Univ, "Bold", 10, 0, 1)>>,
     <<Name(<<"A">>, 0), Right(Email), Written(Univ, "Bold", 12, 0, 1)>>,
     <<Name(<<"A">>, 0), Right(Email), Right(EditorMarker), Below(Univ)>>,
     <<Name(<<"A">>, 0), Right(Email), Right(EditorMarker)>>,
     <<Name(<<"A">>, 0), Written(<<"d">>, "Bold", 10, 50, 0), Right(Email), Below(Univ)>>}

Tails ==
    {<<>>,
     <<Below(EditorMarker)>>,
     <<Below(EditorMarker), Right(<<"E", "d">>)>>,
     <<Below(EditorMarker), Right(<<"E", "d">>), Below(<<"Abstract">>)>>}

ResultPages ==
    {Page(PlainHead \o Concat(bs) \o t) : bs \in ListsUpTo(CommonBlocks, MaxAuthors), t \in Tails}
        \cup {Page(PlainHead \o Concat(bs) \o t) :
                bs \in ListsUpTo(CommonBlocks \cup OtherBlocks, MaxBlocks), t \in Tails}
        \cup {Page(SplitHead \o Concat(bs) \o t) : bs \in ListsUpTo(CommonBlocks, 1), t \in Tails}

InitResult ==
    /\ pc = "analysis_result"
    /\ result \in ResultPages
    /\ pdf_name = PageName
    /\ line = 0
    /\ header = <<>>
    /\ title = <<>>
    /\ ret = NoRet
    /\ pieces = <<>>
    /\ i = 0
    /\ left_index = -1
    /\ right_index = -1
    /\ filtered_pieces = NoList
    /\ exc = "none"
    /\ match = NoMatch
    /\ header_info = Unset
    /\ fine_pieces = NoList
    /\ compare_idle
    /\ normal_idle
    /\ id_idle
    /\ batch_idle

result_frame == UNCHANGED <<pieces, left_index, right_index, filtered_pieces, match,
                            header_info, fine_pieces, compare_vars, result, pdf_name, header,
                            batch_vars, id_vars>>

\* the tuple of a failure with the text of the first span for the title
Failure_first_span(reason) == [ok |-> FALSE, title |-> result[1].text, reason |-> reason]

\* the tuple returned on a failure
Failure(reason) == [ok |-> FALSE, title |-> title, reason |-> reason]

\* title_line = line; the lines of the title are passed; the title is pdf_name
TitleSkip ==
    /\ pc = "title_found"
    /\ line' = next_pdf_line(result, line + 1, line)
    /\ IF next_pdf_line(result, line + 1, line) >= Len(result)
       THEN /\ exc' = "IndexError"
            /\ pc' = "raised"
            /\ title' = title
       ELSE /\ exc' = exc
            /\ pc' = "judge_format"
            /\ title' = pdf_name
    /\ UNCHANGED <<i, ret, normal_vars>>
    /\ result_frame

\* if judge_format(line, result): "id format"; else analysis_normal_format
JudgeFormat ==
    /\ pc = "judge_format"
    /\ IF judge_format(line, result)
       THEN /\ ret' = Failure("id format")
            /\ pc' = "returned"
       ELSE /\ ret' = ret
            /\ pc' = "analysis_normal_format"
    /\ UNCHANGED <<line, title, exc, i, normal_vars>>
    /\ result_frame

\* editor_line = get_editor_line(result), and "No editor"
GetEditorLine ==
    /\ pc = "analysis_normal_format"
    /\ editor_line' = get_editor_line(result)
    /\ IF get_editor_line(result) = -1
       THEN /\ ret' = Failure("No editor")
            /\ pc' = "returned"
       ELSE /\ ret' = ret
            /\ pc' = "get_authors_line"
    /\ UNCHANGED <<line, title, exc, i, authors_line_list, authors, editor>>
    /\ result_frame

\* authors_line_list = get_authors_line(line, editor_line, result), and "No authors"
GetAuthorsLine ==
    /\ pc = "get_authors_line"
    /\ authors_line_list' = get_authors_line(line, editor_line, result)
    /\ IF get_authors_line(line, editor_line, result) = <<>>
       THEN /\ ret' = Failure("No authors")
            /\ pc' = "returned"
       ELSE /\ ret' = ret
            /\ pc' = "check_authors_aline"
    /\ UNCHANGED <<line, title, exc, i, editor_line, authors, editor>>
    /\ result_frame

\* "Authors not aline"
CheckAuthorsAline ==
    /\ pc = "check_authors_aline"
    /\ IF ~check_authors_aline(authors_line_list, result)
       THEN /\ ret' = Failure("Authors not aline")
            /\ pc' = "returned"
       ELSE /\ ret' = ret
            /\ pc' = "check_email_location"
    /\ UNCHANGED <<line, title, exc, i, normal_vars>>
    /\ result_frame

\* "Email location not valid", or the IndexError of the scan; authors = list()
CheckEmailLocation ==
    /\ pc = "check_email_location"
    /\ LET checked == check_email_location(authors_line_list, result)
       IN  IF checked = "IndexError"
           THEN /\ exc' = "IndexError"
                /\ pc' = "raised"
                /\ ret' = ret
           ELSE IF checked = "False"
           THEN /\ exc' = exc
                /\ pc' = "returned"
                /\ ret' = Failure("Email location not valid")
           ELSE /\ exc' = exc
                /\ pc' = "authors_loop"
                /\ ret' = ret
    /\ i' = 0
    /\ authors' = <<>>
    /\ UNCHANGED <<line, title, editor_line, authors_line_list, editor>>
    /\ result_frame

\* one author of the for loop: the name, the lines of its row, its affiliation
AuthorStep ==
    /\ pc = "authors_loop"
    /\ i < Len(authors_line_list)
    /\ LET author_line == authors_line_list[i + 1]
           now_author == result[author_line + 1].text
           next == IF i = Len(authors_line_list) - 1 THEN -1 ELSE authors_line_list[i + 2]
           got == collect_affiliation(result,
                                      next_pdf_line(result, author_line + 1, author_line),
                                      next, <<>>)
       IN  IF strip_glyphs_raises(now_author)
           THEN /\ exc' = "IndexError"
                /\ pc' = "raised"
                /\ UNCHANGED <<line, authors, i, ret>>
           ELSE /\ exc' = exc
                /\ authors' = Append(authors, [name |-> strip_glyphs(now_author),
                                               affiliation |-> got.affiliation])
                /\ line' = got.line
                /\ IF got.error
                   THEN /\ ret' = Failure("error str")
                        /\ pc' = "returned"
                        /\ i' = i
                   ELSE /\ ret' = ret
                        /\ pc' = pc
                        /\ i' = i + 1
    /\ UNCHANGED <<title, editor_line, authors_line_list, editor>>
    /\ result_frame

\* behind the loop: the editor, the checks of the authors, the back-fill
PostPass ==
    /\ pc = "authors_loop"
    /\ i >= Len(authors_line_list)
    /\ editor' = editor_behind_line(result, line)
    /\ IF Len(authors) = 0
       THEN /\ ret' = Failure("authors not found")
            /\ authors' = authors
       ELSE IF last_affiliation_empty(authors)
       THEN /\ ret' = Failure("empty author affiliation")
            /\ authors' = authors
       ELSE /\ ret' = [ok |-> TRUE, title |-> title, reason |-> "None"]
            /\ authors' = back_fill(authors, Len(authors) - 1)
    /\ pc' = "returned"
    /\ UNCHANGED <<line, title, exc, i, editor_line, authors_line_list>>
    /\ result_frame

NextResult ==
    \/ NextTitle
    \/ TitleSkip
    \/ JudgeFormat
    \/ GetEditorLine
    \/ GetAuthorsLine
    \/ CheckAuthorsAline
    \/ CheckEmailLocation
    \/ AuthorStep
    \/ PostPass

SpecResult == InitResult /\ [][NextResult]_vars

---------------------------------------------------------------------------
(* Properties of the format classification. *)

\* the texts accumulated by judge_format called at line l, up to the line e,
\* are an id
IdMatchesAt(res, l, e) == e >= l + 1 /\ is_valid_id(JoinTexts(res, l + 1, e))

\* C12: whenever the text accumulated from one span behind the first line below
\* the title on is an id at some step, analysis_result returns (False, title,
\* "id format") and analysis_normal_format is not called.
C12_IdFormatRejected ==
    [][(pc = "judge_format"
          /\ \E e \in 0..(Len(result) - 1) : IdMatchesAt(result, line, e))
         => (pc' = "returned" /\ ret' = Failure("id format"))]_vars

\* what the code does: the page is rejected exactly when the accumulation is an
\* id before the last span is added
C12_IdFormatBeforeLastSpan ==
    [][pc = "judge_format"
         => ((pc' = "returned" /\ ret' = Failure("id format"))
                <=> \E e \in 0..(Len(result) - 2) : IdMatchesAt(result, line, e))]_vars

---------------------------------------------------------------------------
(* Properties of analysis_normal_format. *)

NoEditorMarker == \A l \in 1..Len(result) : result[l].text # EditorMarker

\* C13: analysis_normal_format returns (False, title, "No editor") exactly when
\* no span has the text "Editor:", and then there are no authors, no
\* affiliations and no editor.
C13_NoEditor ==
    /\ [][pc = "analysis_normal_format"
            => /\ (pc' = "returned" /\ ret' = Failure("No editor")) <=> NoEditorMarker
               /\ NoEditorMarker => (authors' = <<>> /\ editor' = None /\ ~ret'.ok)]_vars
    /\ [](ret.reason = "No editor"
            => (NoEditorMarker /\ pc = "returned" /\ authors = <<>> /\ editor = None))

\* a page with an author block and no "Editor:" has been refused
C13_Witness ==
    /\ pc = "returned"
    /\ ret = Failure("No editor")
    /\ Len(result) >= 5
    /\ \E l \in 1..Len(result) : Contains(result[l].text, "@")

\* two left x-coordinates at most 5 units, 50 tenths, apart
WithinFive(a, b) == a - b <= 50 /\ b - a <= 50

AuthorsAligned ==
    \A k \in 1..Len(authors_line_list) :
        WithinFive(X0(result, authors_line_list[k]), X0(result, authors_line_list[1]))

\* C14: check_authors_aline passes exactly when the left x-coordinate of every
\* author name is at most 5 units from that of the first author name; a name
\* more than 5 units off makes analysis_normal_format return "Authors not aline".
C14_AlignTolerance ==
    [][pc = "check_authors_aline"
         => /\ check_authors_aline(authors_line_list, result) <=> AuthorsAligned
            /\ AuthorsAligned => pc' = "check_email_location"
            /\ ~AuthorsAligned => (pc' = "returned" /\ ret' = Failure("Authors not aline"))]_vars

\* an author name exactly 5 units off the first has passed the check
C14_Witness ==
    /\ pc = "check_email_location"
    /\ \E k \in 1..Len(authors_line_list) :
          Abs(X0(result, authors_line_list[k]) - X0(result, authors_line_list[1])) = 50

HasAt(l) == Contains(result[l + 1].text, "@")

\* the lines behind the author line a that lie strictly below it and start above
\* the next author line, if there is one
StrictlyBelowUpToNextAuthor(k) ==
    LET a == authors_line_list[k]
    IN  {l \in (a + 1)..(Len(result) - 1) :
            /\ Y0(result, l) >= Y1(result, a)
            /\ k < Len(authors_line_list) => Y0(result, l) < Y0(result, authors_line_list[k + 1])}

\* C15 as stated: the spans examined for an author row are those behind it,
\* strictly below it and above the next author row; the check fails exactly when
\* some author row has no such span with an "@".
C15_EmailStrictlyBelow ==
    [][pc = "check_email_location"
         => ((pc' = "returned" /\ ret' = Failure("Email location not valid"))
               <=> \E k \in 1..Len(authors_line_list) :
                      ~\E l \in StrictlyBelowUpToNextAuthor(k) : HasAt(l))]_vars

\* the first line behind the line a that does not start above the bottom of a;
\* Len(result) when every line behind a starts above it
FirstNotAbove(a) ==
    IF \E l \in (a + 1)..(Len(result) - 1) : Y0(result, l) >= Y1(result, a)
    THEN CHOOSE l \in (a + 1)..(Len(result) - 1) :
            /\ Y0(result, l) >= Y1(result, a)
            /\ \A m \in (a + 1)..(l - 1) : Y0(result, m) < Y1(result, a)
    ELSE Len(result)

\* the scan of the author line a: the spans behind a up to and with the first
\* that does not start above the bottom of a
RowScan(a) ==
    IF FirstNotAbove(a) = Len(result) THEN "IndexError"
    ELSE IF \E l \in (a + 1)..FirstNotAbove(a) : HasAt(l) THEN "found"
    ELSE "not found"

\* the first author row whose scan is of the kind, the rows before it having
\* found an "@"
FirstRowScan(kind) ==
    \E k \in 1..Len(authors_line_list) :
        /\ RowScan(authors_line_list[k]) = kind
        /\ \A j \in 1..(k - 1) : RowScan(authors_line_list[j]) = "found"

\* C15: the spans examined for an author row are those behind the name up to
\* and with the first span that does not start above the bottom of the name,
\* whatever the next author row; rows are scanned in order; the check fails
\* exactly when the first row without an "@" among these spans has such a first
\* span, and raises IndexError when the first row without it has none.
C15_EmailUpToFirstBelow ==
    [][pc = "check_email_location"
         => /\ (pc' = "returned" /\ ret' = Failure("Email location not valid"))
                  <=> FirstRowScan("not found")
            /\ (pc' = "raised" /\ exc' = "IndexError") <=> FirstRowScan("IndexError")
            /\ pc' = "authors_loop"
                  <=> \A k \in 1..Len(authors_line_list) :
                         RowScan(authors_line_list[k]) = "found"]_vars

\* an author whose only "@" is on the row of the name has passed the check
C15_Witness ==
    /\ pc = "authors_loop"
    /\ \E k \in 1..Len(authors_line_list) :
          LET a == authors_line_list[k]
          IN  /\ HasAt(a + 1)
              /\ Y0(result, a + 1) < Y1(result, a)
              /\ \A l \in (a + 2)..FirstNotAbove(a) : l < Len(result) => ~HasAt(l)

\* the characters a token of one character may be
ExpectedCharacters ==
    {"0", "1", "2", "3", "4", "5", "6", "7", "8", "9"}
        \cup LowerLetters \cup UpperLetters
        \cup {" ", ",", ".", "-", "&", "(", ")", "/"}

\* the span at the line l is one character, and not an expected one
Unexpected(l) ==
    IsOneCharacter(result[l + 1].text) /\ result[l + 1].text[1] \notin ExpectedCharacters

\* the author of this turn of the loop
ThisAuthorLine == authors_line_list[i + 1]

\* the first line behind the name of this author that does not start above its
\* bottom: the first affiliation token, if it is one
FirstTokenLine == FirstNotAbove(ThisAuthorLine)

\* l ends the affiliation of this author: the end of the page, "Editor:", or the
\* name of the next author
EndsTokens(l) ==
    \/ l >= Len(result)
    \/ result[l + 1].text = EditorMarker
    \/ i + 1 < Len(authors_line_list) /\ l = authors_line_list[i + 2]

\* the line behind the last affiliation token of this author
TokensEnd ==
    CHOOSE l \in FirstTokenLine..Len(result) :
        EndsTokens(l) /\ \A m \in FirstTokenLine..(l - 1) : ~EndsTokens(m)

\* the texts of the lines a..(b - 1)
TextsOf(a, b) == [k \in 1..(b - a) |-> result[a + k].text]

\* this turn of the loop collects tokens: the name is not of glyphs only
CollectsTokens ==
    /\ pc = "authors_loop"
    /\ i < Len(authors_line_list)
    /\ ~strip_glyphs_raises(result[ThisAuthorLine + 1].text)

\* C16: the first token of one character that is neither a letter, a digit nor of
\* " ,.-&()/" makes analysis_normal_format return "error str" at once: no later
\* token is collected and no later author is begun.  Without such a token, every
\* token of the author, those of one expected character too, is collected.
C16_UnexpectedCharacter ==
    [][CollectsTokens =>
         IF \E l \in FirstTokenLine..(TokensEnd - 1) : Unexpected(l)
         THEN LET bad == CHOOSE l \in FirstTokenLine..(TokensEnd - 1) :
                            Unexpected(l) /\ \A m \in FirstTokenLine..(l - 1) : ~Unexpected(m)
              IN  /\ pc' = "returned"
                  /\ ret' = Failure("error str")
                  /\ line' = bad
                  /\ i' = i
                  /\ Len(authors') = i + 1
                  /\ authors'[i + 1].affiliation = TextsOf(FirstTokenLine, bad)
         ELSE /\ pc' = "authors_loop"
              /\ ret' = ret
              /\ i' = i + 1
              /\ authors'[i + 1].affiliation = TextsOf(FirstTokenLine, TokensEnd)]_vars

\* "error str" has been returned at a "#" with a token behind it, after a token
\* "&" was collected for an earlier author
C16_Witness ==
    /\ pc = "returned"
    /\ ret = Failure("error str")
    /\ result[line + 1].text = <<"#">>
    /\ line + 1 < Len(result)
    /\ result[line + 2].text # EditorMarker
    /\ \E a \in 1..(Len(authors) - 1) :
          \E k \in 1..Len(authors[a].affiliation) : authors[a].affiliation[k] = <<"&">>

\* the loop over the authors is behind, the checks of the authors are next
AuthorsCollected == pc = "authors_loop" /\ i >= Len(authors_line_list)

\* C17: when the last author has no affiliation token behind the loop,
\* analysis_normal_format returns (False, title, "empty author affiliation") and
\* fills nothing in; when it has one, this failure is not returned.
C17_EmptyLastAffiliation ==
    /\ [][AuthorsCollected =>
            IF authors[Len(authors)].affiliation = <<>>
            THEN /\ pc' = "returned"
                 /\ ret' = Failure("empty author affiliation")
                 /\ authors' = authors
            ELSE ret'.reason # "empty author affiliation"]_vars
    /\ [](ret.reason = "empty author affiliation"
            => (authors # <<>> /\ authors[Len(authors)].affiliation = <<>>))

\* the failure has been returned for a page of two authors, the first of which
\* has an affiliation
C17_Witness ==
    /\ pc = "returned"
    /\ ret = Failure("empty author affiliation")
    /\ Len(authors) = 2
    /\ authors[1].affiliation # <<>>

\* the author nearest to the right of a, a itself included, that has an
\* affiliation token
NearestWithAffiliation(as, a) ==
    CHOOSE b \in a..Len(as) :
        as[b].affiliation # <<>> /\ \A c \in a..(b - 1) : as[c].affiliation = <<>>

C19_AuthorsHaveAffiliations ==
    (pc = "returned" /\ ret.ok) =>
        /\ Len(authors) > 0
        /\ \A a \in 1..Len(authors) : authors[a].affiliation # <<>>

\* a success with two authors and the tokens of one
C19_Witness ==
    /\ pc = "returned"
    /\ ret.ok
    /\ Len(authors) = 2
    /\ Cardinality({l \in 1..Len(result) : result[l].text = Univ}) = 1

\* on success the cursor is behind the last affiliation token of the last author
LastTokenBeforeLine ==
    /\ line >= 1
    /\ result[line].text
          = authors[Len(authors)].affiliation[Len(authors[Len(authors)].affiliation)]

\* C20 as stated: on success the editor is the text of the span immediately
\* behind the last affiliation token of the last author, and None only when no
\* span is behind it.
C20_EditorBehindLastToken ==
    (pc = "returned" /\ ret.ok) =>
        /\ LastTokenBeforeLine
        /\ editor = IF line < Len(result) THEN result[line + 1].text ELSE None

\* C20: on success the editor is the text of the second span behind the last
\* affiliation token of the last author, the span behind the one where the
\* collection ended; it is None when fewer than two spans are behind that token.
C20_EditorBehindEndOfTokens ==
    (pc = "returned" /\ ret.ok) =>
        /\ LastTokenBeforeLine
        /\ editor = IF line + 1 < Len(result) THEN result[line + 2].text ELSE None

\* a success on a page with "Editor:" behind the last token and a name behind it
C20_Witness ==
    /\ pc = "returned"
    /\ ret.ok
    /\ line + 1 < Len(result)
    /\ result[line + 1].text = EditorMarker
    /\ editor = <<"E", "d">>

---------------------------------------------------------------------------
(* Properties of the outcome of analysis_result. *)

\* the file name of the pages, without ".pdf"
CanonicalTitle == <<"a", "b">>

Reasons ==
    {"cannot find title", "id format", "No editor", "No authors", "Authors not aline",
     "Email location not valid", "error str", "authors not found", "empty author affiliation"}

\* C21: a returned outcome with the flag False carries the file name without
\* ".pdf" and one of the reasons, and nothing of the record; an outcome with the
\* flag True carries the record with that title, the authors and the editor, and
\* the reason None.
C21_NoPartialExposure ==
    pc = "returned" =>
        IF ret.ok
        THEN /\ ret = [ok |-> TRUE, title |-> CanonicalTitle, reason |-> "None"]
             /\ title = CanonicalTitle
             /\ authors # <<>>
             /\ \A a \in 1..Len(authors) : authors[a].name # <<>>
             /\ editor = editor_behind_line(result, line)
        ELSE /\ ret.title = CanonicalTitle
             /\ ret.reason \in Reasons
             /\ DOMAIN ret = {"ok", "title", "reason"}

\* a failure has been returned while authors had been collected
C21_Witness ==
    /\ pc = "returned"
    /\ ~ret.ok
    /\ ret.reason = "error str"
    /\ Len(authors) >= 2
    /\ authors[1].affiliation # <<>>

---------------------------------------------------------------------------
(* The batch drivers: __main__ of proc_jmlr.py, which calls                *)
(* analysis_result for every file, and the loop of statistic_scripts.py,   *)
(* which calls parse_jmlr_pdf inside try ... except Exception.  A file is  *)
(* what parsing it does: analysis_result returns a success or a failure or *)
(* raises IndexError; parse_jmlr_pdf returns or raises                     *)
(* JMLRPDFExtractionError.                                                 *)

\* most files of a directory
MaxFiles == 3

File(suffix, outcome) == [suffix |-> suffix, outcome |-> outcome]

\* the files a driver can meet; suffix is pdf.endswith(".pdf")
Files(d) ==
    IF d = "proc_jmlr"
    THEN {File(TRUE, "success"), File(TRUE, "failure"), File(TRUE, "IndexError"),
          File(FALSE, "none")}
    ELSE {File(TRUE, "success"), File(TRUE, "JMLRPDFExtractionError"), File(FALSE, "none")}

InitBatch ==
    /\ pc = "batch"
    /\ driver \in {"proc_jmlr", "statistic_scripts"}
    /\ worklist \in ListsUpTo(Files(driver), MaxFiles)
    /\ pdf = 0
    /\ success_count = 0
    /\ fail_count = 0
    /\ processed = [k \in 1..Len(worklist) |-> 0]
    /\ lite_idle
    /\ title_idle
    /\ compare_idle
    /\ normal_idle
    /\ id_idle

batch_frame == UNCHANGED <<pieces, i, left_index, right_index, filtered_pieces, header, match,
                           header_info, fine_pieces, title_vars, compare_vars, normal_vars,
                           driver, worklist, id_vars>>

\* the exception of the file leaves the loop: only statistic_scripts.py has
\* the call inside try ... except Exception
uncaught(d, outcome) == d = "proc_jmlr" /\ outcome \notin {"success", "failure"}

\* one turn of the for loop
BatchFile ==
    /\ pc = "batch"
    /\ pdf < Len(worklist)
    /\ LET file == worklist[pdf + 1]
       IN  IF ~file.suffix
           THEN /\ pdf' = pdf + 1
                /\ UNCHANGED <<pc, exc, success_count, fail_count, processed>>
           ELSE /\ processed' = [processed EXCEPT ![pdf + 1] = @ + 1]
                /\ IF uncaught(driver, file.outcome)
                   THEN /\ exc' = file.outcome
                        /\ pc' = "raised"
                        /\ UNCHANGED <<pdf, success_count, fail_count>>
                   ELSE /\ pdf' = pdf + 1
                        /\ success_count' = success_count + (IF file.outcome = "success" THEN 1 ELSE 0)
                        /\ fail_count' = fail_count + (IF file.outcome = "success" THEN 0 ELSE 1)
                        /\ UNCHANGED <<pc, exc>>
    /\ batch_frame

\* behind the loop: the counts are printed
BatchEnd ==
    /\ pc = "batch"
    /\ pdf >= Len(worklist)
    /\ pc' = "batch_done"
    /\ UNCHANGED <<exc, pdf, success_count, fail_count, processed>>
    /\ batch_frame

NextBatch == BatchFile \/ BatchEnd

\* a running Python program takes its next step
SpecBatch == InitBatch /\ [][NextBatch]_vars /\ WF_vars(NextBatch)

---------------------------------------------------------------------------
(* Properties of the batch drivers. *)

PdfFiles == {k \in 1..Len(worklist) : worklist[k].suffix}

\* every PDF file has been parsed once, the run is at its end, and the counts
\* add up to the number of PDF files
AllProcessedOnce ==
    /\ pc = "batch_done"
    /\ \A k \in PdfFiles : processed[k] = 1
    /\ success_count + fail_count = Cardinality(PdfFiles)

\* C22: whatever files fail, every PDF file of the worklist is eventually parsed,
\* none is parsed twice, and at the end of the run the success count plus the
\* fail count is the number of PDF files.
C22_EveryFileOnce ==
    /\ [](\A k \in 1..Len(worklist) : processed[k] <= 1)
    /\ <>AllProcessedOnce

\* what the code does: the run ends with every PDF file parsed once unless a
\* file raises in the driver of proc_jmlr.py, which ends the run at that file
C22_EveryFileOnceUnlessRaised ==
    /\ [](\A k \in 1..Len(worklist) : processed[k] <= 1)
    /\ <>(AllProcessedOnce
            \/ (pc = "raised" /\ driver = "proc_jmlr"
                  /\ \E k \in PdfFiles : worklist[k].outcome = "IndexError"))
    /\ []((driver = "statistic_scripts"
             \/ \A k \in PdfFiles : worklist[k].outcome # "IndexError")
            => <>AllProcessedOnce)

---------------------------------------------------------------------------
(* Properties of the anchors of coarse_filter_pieces. *)

\* the index of the first piece whose text satisfies Has; -1 when there is none
FirstPiece(Has(_)) ==
    IF \E k \in 0..(Len(pieces) - 1) : Has(pieces[k + 1].text)
    THEN CHOOSE k \in 0..(Len(pieces) - 1) :
            /\ Has(pieces[k + 1].text)
            /\ \A m \in 0..(k - 1) : ~Has(pieces[m + 1].text)
    ELSE -1

\* C23: when a piece contains "Editor", the cut index is the index of the first
\* such piece; the index before the first "Abstract" piece is the cut index only
\* when no piece contains "Editor".
C23_EditorPreferred ==
    CoarseDone =>
        /\ FirstPiece(HasEditor) # -1 => left_index = FirstPiece(HasEditor)
        /\ (FirstPiece(HasEditor) = -1 /\ FirstPiece(HasAbstract) # -1)
              => left_index = FirstPiece(HasAbstract) - 1

\* what the code does: the first piece, from the top, that contains "Editor" or
\* that contains "Abstract" and is not the first of the page, decides
C23_FirstMarkerDecides ==
    CoarseDone =>
        LET marks(k) == \/ HasEditor(pieces[k + 1].text)
                        \/ HasAbstract(pieces[k + 1].text) /\ k > 0
        IN  IF \E k \in 0..(Len(pieces) - 1) : marks(k)
            THEN LET k == CHOOSE j \in 0..(Len(pieces) - 1) :
                             marks(j) /\ \A m \in 0..(j - 1) : ~marks(m)
                 IN  left_index = IF HasEditor(pieces[k + 1].text) THEN k ELSE k - 1
            ELSE left_index = -1

\* C24: the copyright index is the index of the first piece, in sorted order,
\* that contains a copyright glyph; with several such pieces the footer kept
\* starts at the first of them.
C24_FirstCopyright ==
    CoarseDone =>
        /\ right_index = FirstPiece(HasCopyright)
        /\ (AnchorsInOrder /\ filtered_pieces # NoList)
              => filtered_pieces[left_index + 1] = pieces[FirstPiece(HasCopyright) + 1]

\* what the code does: the copyright index is that of the last such piece
C24_LastCopyright ==
    CoarseDone =>
        /\ right_index # -1 => HasCopyright(pieces[right_index + 1].text)
        /\ \A k \in (right_index + 1)..(Len(pieces) - 1) : ~HasCopyright(pieces[k + 1].text)

\* C29: a list returned by coarse_filter_pieces is not empty and holds the piece
\* at the copyright index, so that fine_filter_pieces can read its first piece;
\* its pieces are in the (y0, x0) order of the sorted page.
C29_ReturnedListNonEmpty ==
    (CoarseDone /\ exc = "none") =>
        /\ filtered_pieces # NoList
        /\ Len(filtered_pieces) >= 1
        /\ \E k \in 1..Len(filtered_pieces) :
              /\ filtered_pieces[k] = pieces[right_index + 1]
              /\ HasCopyright(filtered_pieces[k].text)
        /\ \A k \in 1..(Len(filtered_pieces) - 1) :
              KeyLeq(filtered_pieces[k], filtered_pieces[k + 1])
        /\ pieces = SortPieces(pieces)

\* a list of the copyright piece alone has been returned
C29_Witness ==
    /\ pc = "fine"
    /\ exc = "none"
    /\ Len(pieces) = 3
    /\ Len(filtered_pieces) = 1
    /\ left_index = 0

---------------------------------------------------------------------------
(* The list of author lines. *)

\* span l is between the first span after the title and the "Editor:" marker and
\* has the font and the size of the first span after the title
IsAuthorLine(l) ==
    /\ line <= l
    /\ l < editor_line
    /\ result[l + 1].font = result[line + 1].font
    /\ result[l + 1].size = result[line + 1].size

\* C25: the list computed by get_authors_line holds, in increasing order, exactly
\* the indices from the first span after the title up to, excluding, the
\* "Editor:" marker whose font and size both equal those of that first span; it
\* is empty, and the result is the failure "No authors", exactly when the marker
\* does not lie after that first span.
C25_AuthorsLineList ==
    [][pc = "get_authors_line" =>
          /\ \A k \in 1..Len(authors_line_list') : IsAuthorLine(authors_line_list'[k])
          /\ \A l \in 0..(Len(result) - 1) :
                IsAuthorLine(l) => \E k \in 1..Len(authors_line_list') :
                                      authors_line_list'[k] = l
          /\ \A k \in 1..(Len(authors_line_list') - 1) :
                authors_line_list'[k] < authors_line_list'[k + 1]
          /\ (authors_line_list' = <<>>) <=> ~(editor_line > line)
          /\ (pc' = "returned" /\ ret' = Failure("No authors")) <=> ~(editor_line > line)
          /\ ~(editor_line > line) \/ pc' = "check_authors_aline"]_vars

\* a list of two author lines has been computed on a page with a span of another
\* size and one of another font between the first author line and the marker
C25_Witness ==
    /\ pc = "check_authors_aline"
    /\ Len(authors_line_list) = 2
    /\ \E l \in line..(editor_line - 1) :
          /\ result[l + 1].font = result[line + 1].font
          /\ result[l + 1].size # result[line + 1].size
    /\ \E l \in line..(editor_line - 1) : result[l + 1].font # result[line + 1].font

---------------------------------------------------------------------------
(* The range of the affiliation tokens. *)

\* the line that is to end the tokens of this author: the name of the next
\* author, the "Editor:" marker for the last author
NextAuthorOrEditor ==
    IF i + 1 < Len(authors_line_list) THEN authors_line_list[i + 2] ELSE editor_line

\* the texts of a list of tokens
TokenSet(affiliation) == {affiliation[k] : k \in 1..Len(affiliation)}

\* C26: the tokens collected for an author are the texts, in order, of the spans
\* from the first span below the row of the name up to, excluding, the name of
\* the next author, or the "Editor:" marker for the last author; no list of tokens
\* holds the text of the name span of another author, nor "Editor:".
C26_AffiliationRange ==
    [][(CollectsTokens /\ pc' = "authors_loop") =>
          /\ authors'[i + 1].affiliation = TextsOf(FirstTokenLine, NextAuthorOrEditor)
          /\ EditorMarker \notin TokenSet(authors'[i + 1].affiliation)
          /\ \A k \in 1..Len(authors_line_list) :
                k # i + 1 => result[authors_line_list[k] + 1].text
                                \notin TokenSet(authors'[i + 1].affiliation)]_vars

\* what the code does: "Editor:" is never a token, and the name of another author
\* is one only when the name of the next author is on the row of this author
C26_NoNameUnlessNextOnRow ==
    [][(CollectsTokens /\ pc' = "authors_loop") =>
          /\ EditorMarker \notin TokenSet(authors'[i + 1].affiliation)
          /\ (i + 1 < Len(authors_line_list) /\ FirstTokenLine <= authors_line_list[i + 2])
                => \A k \in 1..Len(authors_line_list) :
                      k # i + 1 => result[authors_line_list[k] + 1].text
                                      \notin TokenSet(authors'[i + 1].affiliation)
          /\ i + 1 = Len(authors_line_list)
                => \A k \in 1..Len(authors_line_list) :
                      k # i + 1 => result[authors_line_list[k] + 1].text
                                      \notin TokenSet(authors'[i + 1].affiliation)]_vars

---------------------------------------------------------------------------
(* The skip of the lines of the title. *)

\* C27: with the title matched at the span t, the skip ends with the cursor at the
\* least index behind t whose span does not start above the bottom of the span t,
\* for every list of spans; no index outside the list is read, also when every
\* span behind t starts above the bottom of t.
C27_TitleSkipInsideList ==
    [][pc = "title_found" =>
          /\ pc' = "judge_format"
          /\ exc' = "none"
          /\ line' = FirstNotAbove(line)
          /\ line' > line
          /\ line' < Len(result)]_vars

\* what the code does: the cursor is as said when such a span exists; without
\* one, result[len(result)] is read and IndexError is raised
C27_TitleSkipOrIndexError ==
    [][pc = "title_found" =>
          IF FirstNotAbove(line) < Len(result)
          THEN /\ pc' = "judge_format"
               /\ line' = FirstNotAbove(line)
               /\ title' = pdf_name
          ELSE /\ pc' = "raised"
               /\ exc' = "IndexError"]_vars

---------------------------------------------------------------------------
(* The indices read by check_email_location. *)

\* C30: check_email_location reads no index outside the list of spans: for every
\* list of spans and every list of author lines of get_authors_line, the scan of
\* each author line stops at or before the last span and the function returns
\* True or False, also when every span behind an author line starts above the
\* bottom of that line.
C30_EmailScanInsideList ==
    [][pc = "check_email_location" =>
          /\ pc' \in {"authors_loop", "returned"}
          /\ exc' = "none"
          /\ check_email_location(authors_line_list, result) \in {"True", "False"}
          /\ \A k \in 1..Len(authors_line_list) :
                (\A j \in 1..(k - 1) : RowScan(authors_line_list[j]) = "found")
                    => FirstNotAbove(authors_line_list[k]) <= Len(result) - 1]_vars

---------------------------------------------------------------------------
(* is_valid_id on its own: SpecId applies it to every text of at most MaxId
   characters over digits, glyphs, the comma, the space and a letter. *)

\* longest text given to is_valid_id
MaxId == 4

IdChars == {"1", "2", ",", " ", "*", DAGGER, "a"}

InitId ==
    /\ pc = "is_valid_id"
    /\ id_text \in ListsUpTo(IdChars, MaxId)
    /\ id_valid = FALSE
    /\ lite_idle
    /\ title_idle
    /\ compare_idle
    /\ normal_idle
    /\ batch_idle

\* the call
IdCall ==
    /\ pc = "is_valid_id"
    /\ id_valid' = is_valid_id(id_text)
    /\ pc' = "id_checked"
    /\ UNCHANGED <<id_text, lite_vars, title_vars, compare_vars, normal_vars, batch_vars>>

NextId == IdCall

SpecId == InitId /\ [][NextId]_vars

\* a character of a token: a digit or a glyph
IsTokenChar(c) == IsDigit(c) \/ c \in IdGlyphs

\* the positions of the characters of tokens
TokenPositions(s) == {p \in 1..Len(s) : IsTokenChar(s[p])}

\* the number of commas at the positions a..b
RECURSIVE Commas(_, _, _)
Commas(s, a, b) ==
    IF a > b THEN 0 ELSE (IF s[a] = "," THEN 1 ELSE 0) + Commas(s, a + 1, b)

\* a character that is neither of a token, nor a comma, nor a space
HasOtherCharacter(s) ==
    \E p \in 1..Len(s) : ~IsTokenChar(s[p]) /\ s[p] # "," /\ ~IsSpace(s[p])

\* a run of digits, with spaces around it or not
IsDigitRun(s) ==
    LET p0 == SkipSpaces(s, 1)
        p1 == SkipDigits(s, p0)
    IN  p1 > p0 /\ SkipSpaces(s, p1) = Len(s) + 1

\* a glyph alone, with spaces around it or not
IsLoneGlyph(s) ==
    LET p0 == SkipSpaces(s, 1)
    IN  At(s, p0) \in IdGlyphs /\ SkipSpaces(s, p0 + 1) = Len(s) + 1

\* the position behind the tokens that follow p, each behind a comma, spaces, or
\* a comma among spaces
RECURSIVE SkipSeparatedTokens(_, _)
SkipSeparatedTokens(s, p) ==
    LET c == SkipSpaces(s, p)
        t == IF At(s, c) = "," THEN SkipSpaces(s, c + 1) ELSE c
    IN  IF t > p /\ IdTokenEnd(s, t) > t
        THEN SkipSeparatedTokens(s, IdTokenEnd(s, t))
        ELSE p

\* two tokens or more, separated by commas and/or spaces, with spaces around
\* the list or not
IsSeparatedList(s) ==
    LET p0 == SkipSpaces(s, 1)
        p1 == IdTokenEnd(s, p0)
        p2 == SkipSeparatedTokens(s, p1)
    IN  p1 > p0 /\ p2 > p1 /\ SkipSpaces(s, p2) = Len(s) + 1

\* C28: is_valid_id is true for a run of digits alone and for every list of two
\* or more tokens (runs of digits, glyphs) separated by commas and/or spaces,
\* with spaces around it or not; it is false for the empty text, for a glyph
\* alone with spaces around it or not, and for every text with a character
\* that is neither a digit, a glyph, a comma nor a space.
C28_IdGrammar ==
    pc = "id_checked" =>
        /\ IsDigitRun(id_text) => id_valid
        /\ IsSeparatedList(id_text) => id_valid
        /\ id_text = <<>> => ~id_valid
        /\ IsLoneGlyph(id_text) => ~id_valid
        /\ HasOtherCharacter(id_text) => ~id_valid

\* between the tokens before and behind the gap a..b there is one comma
OneComma(s, a, b) == Commas(s, a, b) = 1

\* the text is tokens with one comma, among spaces or not, between each two,
\* spaces or not around them, and one comma or none behind the last
IsCommaList(s) ==
    LET T == TokenPositions(s)
    IN  /\ ~HasOtherCharacter(s)
        /\ T # {}
        /\ \A p \in T : Commas(s, 1, p) = 0 \/ \E q \in T : q < p
        /\ \A p, q \in T :
              (p < q /\ \A m \in (p + 1)..(q - 1) : m \notin T) =>
                  IF q = p + 1 THEN IsDigit(s[p]) /\ IsDigit(s[q])
                  ELSE OneComma(s, p + 1, q - 1)
        /\ \A p \in T : (\A q \in T : q <= p) => Commas(s, p + 1, Len(s)) <= 1

\* C28, with the comma the pattern requires: is_valid_id is true exactly for the
\* texts of tokens (runs of digits, glyphs) with one comma, among spaces or not,
\* between each two tokens, spaces or not around the list and one comma or none
\* behind it, that are not a glyph alone among spaces; so a run of digits alone
\* is an id, tokens separated by spaces alone are not, and the empty text, a
\* glyph alone and a text with another character are not.
C28_IdGrammarCommas ==
    pc = "id_checked" =>
        /\ id_valid <=> (IsCommaList(id_text) /\ ~IsLoneGlyph(id_text))
        /\ IsDigitRun(id_text) => id_valid
        /\ id_text = <<>> => ~id_valid
        /\ IsLoneGlyph(id_text) => ~id_valid
        /\ HasOtherCharacter(id_text) => ~id_valid
        /\ (IsSeparatedList(id_text) /\ ~IsCommaList(id_text)) => ~id_valid

\* a list of a digit and a glyph with a comma has been accepted
C28_Witness ==
    /\ pc = "id_checked"
    /\ id_text = <<"1", ",", " ", "*">>
    /\ id_valid

===========================================================================
